---- MODULE Spec2Model ----
(***************************************************************************)
(* A model of zebracal's calendar engine: the recurrence expander          *)
(* (expandRecurringEvent), the ICS codec (createEventOnRadicale's payload  *)
(* and loadICSFromReader), collection discovery, the candidate-address     *)
(* fetch loop and the aggregate load.                                      *)
(*                                                                         *)
(* Time.  An instant is an integer number of slots; a day holds            *)
(* SlotsPerDay slots, and day 0 is 1970-01-01.  All wall-clock fields of   *)
(* the expander are read in one location, so Format("2006-01-02") of an   *)
(* instant is its day number.                                              *)
(***************************************************************************)
EXTENDS Integers, Sequences, FiniteSets, TLC

VARIABLES
    inp,           \* expander: the arguments of the running call
    pc,            \* expander: "call", "ff" (fast-forward loop), "emit", "done"
    currentStart,  \* expander: local currentStart
    iteration,     \* expander: local iteration
    occurrences,   \* expander: local occurrences (the result once pc = "done")
    ffIter,        \* expander: number of fast-forward loop iterations taken so far
    event,         \* upload: the Event handed to createEventOnRadicale
    unescapes,     \* codec: whether the ics library's parser unescapes TEXT values
    cpc,           \* upload/codec: "create", "created", "decoded"
    icsContent,    \* upload: the payload built (a sequence of tokens)
    eventURL,      \* upload: the address of the PUT
    createErr,     \* upload: the returned error, [msg, body] (msg "" is nil)
    putReply,      \* upload: what the server answered to the PUT
    events,        \* codec: the Events loadICSFromReader returns for the payload
    readErr,       \* codec: loadICSFromReader's error (TRUE when it fails)
    dpc,           \* discovery: "request", "response", "done"
    pathIdx,       \* discovery: index into pathsToTry of the current basePath
    resp,          \* discovery: the reply in flight (or the last one handled)
    calendars,     \* discovery: local calendars
    lastErr,       \* discovery: local lastErr ("" is nil)
    requests,      \* discovery: the base paths PROPFIND was sent to, in order
    yields,        \* discovery: len(calendars) at the end of each loop iteration
    discovered,    \* discovery: the returned ([]CalDAVCalendar, error)
    replyKinds,    \* discovery: the kind of reply each request got, in order
    fpc,           \* fetch: "loop", "done"
    calendarURL,   \* fetch: the collection address passed in
    urlIdx,        \* fetch: index into urlsToTry of the next candidate
    fLastErr,      \* fetch: local lastErr ("" is nil)
    lastStatus,    \* fetch: local lastStatus
    fRequests,     \* fetch: the addresses GET was sent to, in order
    fReplies,      \* fetch: the reply each of them got
    fetched,       \* fetch: the returned ([]Event, error)
    lpc,           \* load: "config", "discover", "collections", "others", "locals", "final",
                   \*       "done"; "hung": inside a call that never returns ("idle": not called)
    config,        \* load: the decoded calendars.json
    radicaleConfig,\* load: "nil", "empty" (no ServerURL) or "server"
    radicaleCals,  \* load: the discovered collections
    lidx,          \* load: position in the list being ranged over
    allEvents,     \* load: local allEvents
    calendarsMap,  \* load: local calendars (name -> colour), as a set of pairs
    calendarURLs,  \* load: local calendarURLs (name -> address), as a set of pairs
    colorIndex,    \* load: local colorIndex
    warnings,      \* load: the lines written to os.Stderr
    outcomes,      \* load: what each source attempted so far answered
    loaded,        \* load: the returned (events, calendars, calendarURLs, error)
    mpc,           \* main: "load", "model", "assign", "shown" ("idle": not started)
    flags,         \* main: the command-line flags
    mainLoad,      \* main: what its own call of loadAllCalendars returned
    model,         \* main: m, the model built by initialModel, then assigned to
    displayed,     \* main: "none", "next", "oneshot" (m.View() printed), "tui"
    rpc,           \* read: "read", "done" ("idle": not called)
    records,       \* read: the VEVENT records of the payload handed to loadICSFromReader
    clock,         \* read: time.Now() when loadICSFromReader runs
    decoded,       \* read: the returned ([]Event, error), as [err, out]
    spc,           \* save: "saving", "done", "failed" ("idle": no form submitted)
    eventsToCreate, \* save: the events saveEventFromForm uploads, in order
    sIdx,          \* save: index of the next event to upload
    sClock,        \* save: time.Now() at the last upload, in seconds
    serverStore,   \* save: the resources on the server, <<address, payload>> pairs
    savedCount,    \* save: savedCount
    writable,      \* save: radicaleConfig != nil && calendarURLs[*formCalendar] != ""
    mEvents,       \* save: m.events
    sMessage,      \* save: m.message
    sRequests,     \* save: the addresses of the PUT requests sent, in order
    bpc,           \* build: "parse", "loop", "built", "rejected" ("idle": no form)
    form,          \* build: the values of the form's fields
    bStart,        \* build: currentStart of the recurrence loop
    bEnd,          \* build: currentEnd of the recurrence loop
    bIteration,    \* build: iteration of the recurrence loop
    toCreate,      \* build: eventsToCreate, as [Start, End]
    bMessage,      \* build: m.message
    viewMode,      \* update: m.viewMode
    currentDate,   \* update: m.currentDate
    dayInput,      \* update: m.dayInput, a sequence of digits
    creationMode,  \* update: m.creationMode
    tuiEvents,     \* update: m.events
    quitting,      \* update: Update returned tea.Quit
    formFresh,     \* update: m.eventForm was built and has handled no message yet
    formState,     \* update: m.eventForm.State after the form handled the last message
    lastMsg,       \* update: the last message Update received
    nKeys          \* update: the number of messages received

expVars == <<inp, pc, currentStart, iteration, occurrences, ffIter>>

discVars == <<dpc, pathIdx, resp, calendars, lastErr, requests, yields, discovered, replyKinds>>

fetchVars == <<fpc, calendarURL, urlIdx, fLastErr, lastStatus, fRequests, fReplies, fetched>>

loadVars == <<lpc, config, radicaleConfig, radicaleCals, lidx, allEvents, calendarsMap,
              calendarURLs, colorIndex, warnings, outcomes, loaded>>

mainVars == <<mpc, flags, mainLoad, model, displayed>>

readVars == <<rpc, records, clock, decoded>>

saveVars == <<spc, eventsToCreate, sIdx, sClock, serverStore, savedCount, writable,
              mEvents, sMessage, sRequests>>

buildVars == <<bpc, form, bStart, bEnd, bIteration, toCreate, bMessage>>

updVars == <<viewMode, currentDate, dayInput, creationMode, tuiEvents, quitting, formFresh,
             formState, lastMsg, nKeys>>

codecVars == <<event, unescapes, cpc, icsContent, eventURL, createErr, putReply, events,
               readErr>>

(***************************************************************************)
(* Bounds of the model.                                                    *)
(***************************************************************************)
SlotsPerDay == 2
StartBack == 3
StartAhead == 1
FarBack == 40
HorizonShort == 5
HorizonLong == 16
MaxDuration == 1
MaxSummaryLen == 2
MaxEntries == 2
MaxRecords == 2
MaxUploads == 3
UntilAhead == 2
MaxKeys == 3

(***************************************************************************)
(* Calendar arithmetic of Go's time package (proleptic Gregorian).         *)
(***************************************************************************)
\* Days from 1970-01-01 to the civil date y-m-d, m in 1..12; linear in d, so a
\* day past the end of the month spills into the next one, as time.Date does.
DaysFromCivil(y, m, d) ==
    LET FromDoe(era, doe) == era * 146097 + doe - 719468
        FromYoe(era, yoe, doy) ==
            FromDoe(era, yoe * 365 + yoe \div 4 - yoe \div 100 + doy)
        FromYear(yy, doy) == FromYoe(yy \div 400, yy - (yy \div 400) * 400, doy)
        FromMp(mp) == FromYear(IF m <= 2 THEN y - 1 ELSE y, (153 * mp + 2) \div 5 + d - 1)
    IN  FromMp(IF m > 2 THEN m - 3 ELSE m + 9)

\* The civil date of day number z, as [y, m, d].
CivilFromDays(z) ==
    LET OfMp(yoeEra, doy, mp) ==
            [y |-> yoeEra + (IF mp < 10 THEN 0 ELSE 1),
             m |-> IF mp < 10 THEN mp + 3 ELSE mp - 9,
             d |-> doy - (153 * mp + 2) \div 5 + 1]
        OfDoy(yoeEra, doy) == OfMp(yoeEra, doy, (5 * doy + 2) \div 153)
        OfYoe(era, doe, yoe) ==
            OfDoy(yoe + era * 400, doe - (365 * yoe + yoe \div 4 - yoe \div 100))
        OfDoe(era, doe) ==
            OfYoe(era, doe,
                  (doe - doe \div 1460 + doe \div 36524 - doe \div 146096) \div 365)
        OfEra(zz, era) == OfDoe(era, zz - era * 146097)
        OfZ(zz) == OfEra(zz, zz \div 146097)
    IN  OfZ(z + 719468)

\* t.Format("2006-01-02"): the calendar day of an instant.
DateOf(t) == t \div SlotsPerDay

\* The slot within the day (hour, minute, second of the wall clock).
ClockOf(t) == t % SlotsPerDay

\* t.AddDate(years, months, days): add to the civil fields, then normalise
\* (months overflow into years, days overflow into the following months).
AddDate(t, years, months, days) ==
    LET Normalised(c, m0) ==
            (DaysFromCivil(c.y + years + (m0 \div 12), (m0 % 12) + 1, c.d) + days)
                * SlotsPerDay + ClockOf(t)
        Shifted(c) == Normalised(c, (c.m - 1) + months)
    IN  Shifted(CivilFromDays(DateOf(t)))

(***************************************************************************)
(* The rule text.  A rule is the sequence of its ';'-separated parts; a    *)
(* part is [key, str, num, ok]: the text before '=', the text after it,    *)
(* and, for a numeric or date value, the value it parses to and whether    *)
(* it parses at all.                                                       *)
(***************************************************************************)
NoTime == -1000000000   \* the zero time.Time (until.IsZero())

Part(k, s, n, ok) == [key |-> k, str |-> s, num |-> n, ok |-> ok]
FreqPart(f)     == Part("FREQ", f, 0, TRUE)
IntervalPart(n) == Part("INTERVAL", "", n, TRUE)
CountPart(n)    == Part("COUNT", "", n, TRUE)
UntilPart(t)    == Part("UNTIL", "", t, TRUE)
BadPart(k)      == Part(k, "x", 0, FALSE)

\* strings.ToUpper on the frequency words the inputs use.
ToUpper(s) ==
    CASE s = "daily"  -> "DAILY"
      [] s = "weekly" -> "WEEKLY"
      [] OTHER        -> s

\* The parse loop: later parts overwrite earlier ones, a value that does not
\* parse leaves the default, an unknown key is ignored.
RECURSIVE ParseParts(_, _, _)
ParseParts(parts, i, acc) ==
    IF i > Len(parts) THEN acc
    ELSE LET p == parts[i]
             nxt == CASE p.key = "FREQ"     -> [acc EXCEPT !.freq = ToUpper(p.str)]
                      [] p.key = "INTERVAL" ->
                            IF p.ok THEN [acc EXCEPT !.interval = p.num] ELSE acc
                      [] p.key = "UNTIL"    ->
                            IF p.ok THEN [acc EXCEPT !.until = p.num] ELSE acc
                      [] p.key = "COUNT"    ->
                            IF p.ok THEN [acc EXCEPT !.count = p.num] ELSE acc
                      [] OTHER              -> acc
         IN  ParseParts(parts, i + 1, nxt)

ParseRule(rule) ==
    ParseParts(rule, 1, [freq |-> "", interval |-> 1, until |-> NoTime, count |-> -1])

(***************************************************************************)
(* expandRecurringEvent(start, end, rrule, maxDate, now).                  *)
(***************************************************************************)
maxIterations == 1000

KnownFreqs == {"DAILY", "WEEKLY", "MONTHLY", "YEARLY"}

\* EndDate with the UNTIL bound forgotten.
EndDateIgnoringUntil(maxDate, until) ==
    maxDate

\* endDate: maxDate, or UNTIL when it is set and earlier.
EndDate(maxDate, until) ==
    IF until # NoTime /\ until < maxDate THEN until ELSE maxDate

\* yesterday := now.AddDate(0, 0, -1)
Yesterday(now) == AddDate(now, 0, 0, -1)

\* needsFastForward: the start is before yesterday's instant and on neither
\* today's nor yesterday's date.
NeedsFastForward(start, now) ==
    LET Before(yesterday) ==
            /\ start < yesterday
            /\ DateOf(start) # DateOf(now)
            /\ DateOf(start) # DateOf(yesterday)
    IN  Before(Yesterday(now))

\* One period step, as both switches take it (freq is a known frequency).
Advance(t, freq, interval) ==
    AddDate(t, IF freq = "YEARLY" THEN interval ELSE 0,
               IF freq = "MONTHLY" THEN interval ELSE 0,
               CASE freq = "DAILY"  -> interval
                 [] freq = "WEEKLY" -> 7 * interval
                 [] freq \in {"MONTHLY", "YEARLY"} -> 0)

\* The fast-forward loop left only once nextStart is after now.
ReachedOnlyAfterNow(nextStart, now) == nextStart > now

\* The fast-forward loop's two exits: nextStart is on today's date, or after now.
FastForwardReached(nextStart, now) ==
    DateOf(nextStart) = DateOf(now) \/ nextStart > now

\* The emit loop's condition.
LoopCond(cur, endDate, iter) ==
    cur < endDate /\ iter < maxIterations

\* The COUNT break taken one iteration early.
CountReachedEarly(count, iter) ==
    count > 0 /\ iter >= count - 1

\* The COUNT break never taken.
CountNeverReached(count, iter) == FALSE

\* The emit loop's COUNT break.
CountReached(count, iter) ==
    count > 0 /\ iter >= count

\* The relevance filter left out: every step of the series is appended.
RelevantAlways(cur, now) == TRUE

\* occIsYesterday || occIsToday || occIsFuture
Relevant(cur, now) ==
    \/ DateOf(cur) = DateOf(Yesterday(now))
    \/ DateOf(cur) = DateOf(now)
    \/ cur > now

\* The parsed rule and the locals derived from the arguments of the running call.
Rule     == ParseRule(inp.rule)
Freq     == Rule.freq
Interval == Rule.interval
Until    == Rule.until
Count    == Rule.count
Duration == inp.end - inp.start
TheEnd   == EndDate(inp.maxDate, Until)

\* Entry: parse, decide on the fast-forward.  An unknown frequency that needs
\* the fast-forward returns at once (the switch's default).
ExpandBegin ==
    /\ pc = "call"
    /\ currentStart' = inp.start
    /\ pc' = IF NeedsFastForward(inp.start, inp.now)
               THEN (IF Freq \in KnownFreqs THEN "ff" ELSE "done")
               ELSE "emit"
    /\ UNCHANGED <<inp, iteration, occurrences, ffIter>>

\* One iteration of the fast-forward loop of the frequency, with the check
\* that follows the switch when the loop is left.  No iteration cap guards
\* this loop in the source; ffIter only counts (the model stops counting one
\* past maxIterations).
FastForwardStep ==
    /\ pc = "ff"
    /\ ffIter <= maxIterations
    /\ LET nextStart == Advance(currentStart, Freq, Interval)
       IN  /\ currentStart' = nextStart
           /\ pc' = IF FastForwardReached(nextStart, inp.now)
                      THEN (IF nextStart > TheEnd THEN "done" ELSE "emit")
                      ELSE "ff"
    /\ ffIter' = ffIter + 1
    /\ UNCHANGED <<inp, iteration, occurrences>>

\* One pass through the emit loop: the loop condition, the COUNT break, the
\* relevance filter and append, the step, iteration++.
EmitStep ==
    /\ pc = "emit"
    /\ IF ~LoopCond(currentStart, TheEnd, iteration)
         THEN /\ pc' = "done"
              /\ UNCHANGED <<currentStart, iteration, occurrences>>
       ELSE IF CountReached(Count, iteration)
         THEN /\ pc' = "done"
              /\ UNCHANGED <<currentStart, iteration, occurrences>>
       ELSE /\ occurrences' =
                  IF Relevant(currentStart, inp.now)
                    THEN Append(occurrences,
                                [Start |-> currentStart, End |-> currentStart + Duration])
                    ELSE occurrences
            /\ IF Freq \in KnownFreqs
                 THEN /\ currentStart' = Advance(currentStart, Freq, Interval)
                      /\ iteration' = iteration + 1
                      /\ pc' = "emit"
                 ELSE /\ pc' = "done"
                      /\ UNCHANGED <<currentStart, iteration>>
    /\ UNCHANGED <<inp, ffIter>>

\* The fast-forward loop run to its exit (it has none when the step does not
\* move forward).
RECURSIVE FastForward(_, _, _, _)
FastForward(cur, freq, interval, now) ==
    LET Landed(nextStart) ==
            IF FastForwardReached(nextStart, now) THEN nextStart
            ELSE FastForward(nextStart, freq, interval, now)
    IN  Landed(Advance(cur, freq, interval))

\* The emit loop run to its exit.
RECURSIVE EmitFrom(_, _, _, _, _, _)
EmitFrom(cur, iter, rule, endDate, duration, now) ==
    IF ~LoopCond(cur, endDate, iter) \/ CountReached(rule.count, iter) THEN <<>>
    ELSE LET here == IF Relevant(cur, now)
                       THEN <<[Start |-> cur, End |-> cur + duration]>>
                       ELSE <<>>
         IN  IF rule.freq \in KnownFreqs
               THEN here \o EmitFrom(Advance(cur, rule.freq, rule.interval), iter + 1, rule,
                                     endDate, duration, now)
               ELSE here

\* expandRecurringEvent as a value: what the three steps above leave in
\* occurrences when they reach "done".
expandRecurringEvent(start, end, rrule, maxDate, now) ==
    LET From(cs, rule, endDate) ==
            IF cs > endDate THEN <<>>
            ELSE EmitFrom(cs, 0, rule, endDate, end - start, now)
        Run(rule, endDate) ==
            IF NeedsFastForward(start, now)
              THEN IF rule.freq \in KnownFreqs
                     THEN From(FastForward(start, rule.freq, rule.interval, now),
                               rule, endDate)
                     ELSE <<>>
              ELSE EmitFrom(start, 0, rule, endDate, end - start, now)
        Parsed(rule) == Run(rule, EndDate(maxDate, rule.until))
    IN  Parsed(ParseRule(rrule))

(***************************************************************************)
(* The calls the expander is checked on.                                   *)
(***************************************************************************)
Today == DaysFromCivil(2024, 3, 1)

At(day, slot) == day * SlotsPerDay + slot

Slots == 0 .. (SlotsPerDay - 1)

Call(start, dur, rule, maxDate, now) ==
    [start |-> start, end |-> start + dur, rule |-> rule, maxDate |-> maxDate, now |-> now]

StartDays == {Today - FarBack} \cup ((Today - StartBack) .. (Today + StartAhead))

\* Rules with a usable interval, any frequency, optional UNTIL and COUNT; the
\* horizon a few days ahead of now.
GeneralCalls ==
    { Call(At(sd, ss), dur, <<FreqPart(f)>> \o iv \o un \o cn, At(Today + h, ns), At(Today, ns)) :
        sd \in StartDays, ss \in Slots, ns \in Slots, dur \in 1 .. MaxDuration,
        f \in KnownFreqs \cup {"FORTNIGHTLY"},
        iv \in {<<>>, <<IntervalPart(2)>>},
        un \in {<<>>, <<UntilPart(At(Today + StartBack, 0))>>,
                <<UntilPart(At(Today + HorizonLong + 1, 0))>>},
        cn \in {<<>>, <<CountPart(1)>>, <<CountPart(3)>>},
        h \in {HorizonShort, HorizonLong} }

\* What loadICSFromReader passes: maxDate = now.AddDate(1, 0, 0).
YearCalls ==
    { Call(At(sd, ss), 1, <<FreqPart(f)>>, AddDate(At(Today, ns), 1, 0, 0), At(Today, ns)) :
        sd \in {Today - FarBack, Today}, ss \in Slots, ns \in Slots,
        f \in {"DAILY", "WEEKLY", "MONTHLY", "YEARLY", "daily"} }

\* Malformed rules: zero, negative and unreadable intervals, unreadable
\* UNTIL and COUNT, COUNT=0, an unknown key, no FREQ at all.
OddCalls ==
    { Call(At(sd, 0), 1, fq \o odd, At(Today + HorizonShort, 1), At(Today, 1)) :
        sd \in {Today - StartBack, Today},
        fq \in {<<FreqPart("DAILY")>>, <<FreqPart("MONTHLY")>>, <<>>},
        odd \in {<<IntervalPart(0)>>, <<IntervalPart(-1)>>,
                 <<IntervalPart(0), CountPart(3)>>,
                 <<BadPart("INTERVAL"), BadPart("UNTIL"), BadPart("COUNT")>>,
                 <<CountPart(0), BadPart("BYDAY")>>} }

\* Monthly and yearly series that start on the last days of a month, with
\* the horizon loadICSFromReader passes.
MonthEndStarts ==
    {DaysFromCivil(2024, 1, 31), DaysFromCivil(2024, 2, 29), DaysFromCivil(2024, 3, 31)}

MonthEndCalls ==
    { Call(At(sd, ss), 1, <<FreqPart(f)>>, AddDate(At(Today, ns), 1, 0, 0), At(Today, ns)) :
        sd \in MonthEndStarts, ss \in Slots, ns \in Slots, f \in {"MONTHLY", "YEARLY"} }

Calls == GeneralCalls \cup YearCalls \cup OddCalls \cup MonthEndCalls

InitExpand ==
    /\ inp \in Calls
    /\ pc = "call"
    /\ currentStart = inp.start
    /\ iteration = 0
    /\ occurrences = <<>>
    /\ ffIter = 0

\* No expansion running.
IdleExpand ==
    /\ inp = Call(At(Today, 0), 1, <<>>, At(Today, 0), At(Today, 0))
    /\ pc = "done"
    /\ currentStart = inp.start
    /\ iteration = 0
    /\ occurrences = <<>>
    /\ ffIter = 0

(***************************************************************************)
(* Properties of the expander.                                             *)
(***************************************************************************)
Returned == pc = "done"

NumOcc == Len(occurrences)

Week == 7 * SlotsPerDay

\* C1: a rule whose FREQ is none of DAILY, WEEKLY, MONTHLY, YEARLY returns an
\* empty occurrence list, wherever the start lies relative to now.
C1_UnknownFreqYieldsNothing ==
    (Returned /\ Freq \notin KnownFreqs) => occurrences = <<>>

\* The call of C2: FREQ=DAILY, interval 1, no UNTIL, no COUNT, start FarBack
\* days before today, horizon now + 1 year.
IsDailyYearCall ==
    /\ Freq = "DAILY" /\ Interval = 1 /\ Until = NoTime /\ Count = -1
    /\ DateOf(inp.start) = DateOf(inp.now) - FarBack
    /\ inp.maxDate = AddDate(inp.now, 1, 0, 0)

\* C2: that call returns exactly one occurrence per calendar day from
\* yesterday through the horizon: the first is on yesterday, each next one is
\* on the next day, and the day after the last is not before the horizon.
C2_DailyFromYesterday ==
    (Returned /\ IsDailyYearCall) =>
        /\ NumOcc >= 1
        /\ DateOf(occurrences[1].Start) = DateOf(Yesterday(inp.now))
        /\ \A i \in 1 .. (NumOcc - 1) :
              DateOf(occurrences[i + 1].Start) = DateOf(occurrences[i].Start) + 1
        /\ AddDate(occurrences[NumOcc].Start, 0, 0, 1) >= inp.maxDate

\* The call of C3: the rule is FREQ=WEEKLY;COUNT=3 and the start is on today.
IsWeeklyCount3Call ==
    /\ inp.rule = <<FreqPart("WEEKLY"), CountPart(3)>>
    /\ DateOf(inp.start) = DateOf(inp.now)

SevenDaysApart ==
    \A i \in 1 .. (NumOcc - 1) :
        occurrences[i + 1].Start = occurrences[i].Start + Week

\* C3 as stated: FREQ=WEEKLY;COUNT=3 started today returns exactly 3
\* occurrences, 7 days apart, for every horizon.
C3_ThreeForEveryHorizon ==
    (Returned /\ IsWeeklyCount3Call) => (NumOcc = 3 /\ SevenDaysApart)

\* C3 amended: FREQ=WEEKLY;COUNT=3 started today returns the weekly steps
\* start, start + 7d, start + 14d that lie strictly before the horizon, 7 days
\* apart: exactly 3 when the horizon is later than start + 14 days, fewer
\* otherwise.
C3_ThreeUnlessHorizonCuts ==
    (Returned /\ IsWeeklyCount3Call) =>
        /\ NumOcc = Cardinality({k \in 0 .. 2 : inp.start + k * Week < inp.maxDate})
        /\ (inp.maxDate > inp.start + 2 * Week => NumOcc = 3)
        /\ SevenDaysApart

C3_Witness ==
    Returned /\ IsWeeklyCount3Call /\ NumOcc = 3 /\ inp.maxDate > inp.start + 2 * Week

\* min(horizon, UNTIL when present)
EffectiveHorizon ==
    IF Until # NoTime /\ Until < inp.maxDate THEN Until ELSE inp.maxDate

\* C4: every occurrence starts strictly before the effective horizon
\* min(horizon, UNTIL when present), so none starts after UNTIL.
C4_BeforeEffectiveHorizon ==
    \A i \in 1 .. NumOcc :
        /\ occurrences[i].Start < inp.maxDate
        /\ (Until # NoTime => occurrences[i].Start < Until)

\* A returned series that UNTIL, not the horizon, has cut.
C4_Witness ==
    /\ Returned /\ NumOcc >= 2
    /\ Until # NoTime /\ Until < inp.maxDate
    /\ currentStart >= Until /\ currentStart < inp.maxDate

\* C5: the iteration cap bounds every loop of the expansion and the number
\* of occurrences returned.
C5_CapBoundsEveryLoop ==
    /\ ffIter <= maxIterations
    /\ iteration <= maxIterations
    /\ NumOcc <= maxIterations

C23_Chronological ==
    \A i \in 1 .. (NumOcc - 1) :
        occurrences[i + 1].Start > occurrences[i].Start

\* The civil date of an occurrence's start and of the original start.
CivilOf(t) == CivilFromDays(DateOf(t))

\* C31: for FREQ=MONTHLY with the default interval every occurrence falls on
\* the start's day of the month and consecutive occurrences fall in
\* consecutive calendar months; for FREQ=YEARLY every occurrence keeps the
\* start's month and day.
C31_SameDayEveryPeriod ==
    (Returned /\ Freq \in {"MONTHLY", "YEARLY"} /\ Interval = 1) =>
        /\ \A k \in 1 .. NumOcc :
              /\ CivilOf(occurrences[k].Start).d = CivilOf(inp.start).d
              /\ Freq = "YEARLY" => CivilOf(occurrences[k].Start).m = CivilOf(inp.start).m
        /\ Freq = "MONTHLY" =>
              \A k \in 1 .. (NumOcc - 1) :
                  (CivilOf(occurrences[k + 1].Start).y * 12 + CivilOf(occurrences[k + 1].Start).m)
                    = (CivilOf(occurrences[k].Start).y * 12 + CivilOf(occurrences[k].Start).m) + 1

\* One period of the running call's rule: interval days, weeks, calendar
\* months or calendar years.
PeriodStep(t) ==
    CASE Freq = "DAILY"   -> t + Interval * SlotsPerDay
      [] Freq = "WEEKLY"  -> t + 7 * Interval * SlotsPerDay
      [] Freq = "MONTHLY" -> AddDate(t, 0, Interval, 0)
      [] Freq = "YEARLY"  -> AddDate(t, Interval, 0, 0)

\* t advanced by k periods, one after the other.
RECURSIVE StepsFrom(_, _)
StepsFrom(t, k) == IF k = 0 THEN t ELSE StepsFrom(PeriodStep(t), k - 1)

\* On today's calendar day, or after now.
Landed(t) == DateOf(t) = DateOf(inp.now) \/ t > inp.now

\* More period steps than any start of the calls needs to reach today.
MaxSteps == FarBack + 2

\* The precondition of C24.
IsOldKnownCall ==
    /\ DateOf(inp.start) < DateOf(inp.now) - 1
    /\ Freq \in KnownFreqs
    /\ Interval >= 1

\* C24: from a start whose day is before yesterday, with a recognised
\* frequency and interval >= 1, the first occurrence is the start advanced
\* by the smallest k >= 1 of periods that lands on today's date or after
\* now; nothing is returned when that point is not before the effective
\* horizon; each further occurrence is one period after the one before it.
C24_WholePeriodsOnly ==
    (Returned /\ IsOldKnownCall) =>
        \E k \in 1 .. MaxSteps :
            LET target == StepsFrom(inp.start, k)
            IN  /\ Landed(target)
                /\ \A j \in 1 .. (k - 1) : ~Landed(StepsFrom(inp.start, j))
                /\ target > EffectiveHorizon => NumOcc = 0
                /\ NumOcc >= 1 => occurrences[1].Start = target
                /\ (target < EffectiveHorizon /\ Count # 0) => NumOcc >= 1
                /\ \A i \in 1 .. (NumOcc - 1) :
                      occurrences[i + 1].Start = PeriodStep(occurrences[i].Start)

\* A daily series from long ago whose first occurrence is today's, earlier
\* in the day than now.
C24_Witness ==
    /\ Returned /\ IsOldKnownCall /\ Freq = "DAILY"
    /\ DateOf(inp.start) = DateOf(inp.now) - FarBack
    /\ ffIter >= 2 /\ NumOcc >= 2
    /\ DateOf(occurrences[1].Start) = DateOf(inp.now)
    /\ occurrences[1].Start < inp.now

Alphabet == {"a", "n", "\\", ",", ";", "\n"}

Kw(k)    == [t |-> "kw", v |-> k, n |-> 0]
Ch(c)    == [t |-> "ch", v |-> c, n |-> 0]
Stamp(w) == [t |-> "stamp", v |-> "Z", n |-> w]
UidTok(u) == [t |-> "uid", v |-> u, n |-> 0]
NL       == Ch("\n")

IsNL(tok) == tok.t = "ch" /\ tok.v = "\n"

\* strings.ReplaceAll(s, c, r) for a one-character c.
RECURSIVE ReplaceAll(_, _, _)
ReplaceAll(s, c, r) ==
    IF s = <<>> THEN <<>>
    ELSE (IF Head(s) = c THEN r ELSE <<Head(s)>>) \o ReplaceAll(Tail(s), c, r)

\* The four replacements with the backslash's taken last.
EscapeBackslashLast(value) ==
    LET EscNewline(v) == ReplaceAll(v, "\n", <<"\\", "n">>)
        EscSemicolon(v) == EscNewline(ReplaceAll(v, ";", <<"\\", ";">>))
        EscComma(v) == EscSemicolon(ReplaceAll(v, ",", <<"\\", ",">>))
    IN  ReplaceAll(EscComma(value), "\\", <<"\\", "\\">>)

\* escapeICSValue: backslash, comma, semicolon, newline, in that order.
escapeICSValue(value) ==
    LET v1 == ReplaceAll(value, "\\", <<"\\", "\\">>)
        v2 == ReplaceAll(v1, ",", <<"\\", ",">>)
        v3 == ReplaceAll(v2, ";", <<"\\", ";">>)
    IN  ReplaceAll(v3, "\n", <<"\\", "n">>)

\* t.Format("20060102T150405Z"): the 'Z' of this layout is a literal, so the
\* fields written are those of t's wall clock in t's own location.
FormatStamp(t) == Stamp(t.inst + t.off)

\* The UID createEventOnRadicale assigns: time.Now() to the second.
GeneratedUID == "now@mytuicalendar"

RECURSIVE Chars(_)
Chars(text) ==
    IF text = <<>> THEN <<>> ELSE <<Ch(Head(text))>> \o Chars(Tail(text))

PayloadLine(name, value) == <<Kw(name)>> \o value \o <<NL>>

CalendarHead ==
    PayloadLine("BEGIN:VCALENDAR", <<>>)
    \o PayloadLine("VERSION:2.0", <<>>)
    \o PayloadLine("PRODID:-//MyTuiCalendar//EN", <<>>)

EventBlock(e) ==
    PayloadLine("BEGIN:VEVENT", <<>>)
    \o PayloadLine("UID:", <<UidTok(e.UID)>>)
    \o PayloadLine("DTSTART:", <<FormatStamp(e.Start)>>)
    \o PayloadLine("DTEND:", <<FormatStamp(e.End)>>)
    \o PayloadLine("SUMMARY:", Chars(escapeICSValue(e.Summary)))
    \o PayloadLine("DESCRIPTION:", Chars(escapeICSValue(e.Description)))
    \o PayloadLine("END:VEVENT", <<>>)

CalendarFoot == PayloadLine("END:VCALENDAR", <<>>)

\* icsContent of createEventOnRadicale for an event whose UID is set.
Payload(e) == CalendarHead \o EventBlock(e) \o CalendarFoot

\* The collection address the uploads go to.
CalendarURL == <<"http://server", "/", "alice", "/", "work", "/">>

\* What the server may answer to the PUT; 0 stands for a transport error.
PutReply(status, body) == [status |-> status, body |-> body]

\* Status 0: client.Do returned an error.
PutReplies ==
    { PutReply(0, ""), PutReply(201, ""), PutReply(204, ""), PutReply(200, "OK"),
      PutReply(202, "Accepted"), PutReply(403, "Forbidden"), PutReply(500, "Server Error") }

NoError == [msg |-> "", body |-> ""]

\* Success read as any 2xx status.
IsAny2xx(status) == status \in 200 .. 299

\* The status test of createEventOnRadicale.
IsCreated(status) == ~(status # 201 /\ status # 204)

\* createEventOnRadicale(calendarURL, event, config) against a server that
\* answers with reply.
createEventOnRadicale(reply) ==
    /\ cpc = "create"
    /\ LET uid == IF event.UID = "" THEN GeneratedUID ELSE event.UID
           e   == [event EXCEPT !.UID = uid]
       IN  /\ event' = e
           /\ icsContent' = Payload(e)
           /\ eventURL' = CalendarURL \o <<"/", uid, ".ics">>
    /\ putReply' = reply
    /\ createErr' = IF reply.status = 0 THEN [msg |-> "transport", body |-> ""]
                    ELSE IF ~IsCreated(reply.status)
                      THEN [msg |-> "failed to create event", body |-> reply.body]
                    ELSE NoError
    /\ cpc' = "created"
    /\ UNCHANGED <<unescapes, events, readErr>>

(***************************************************************************)
(* Reading: ics.ParseCalendar, then loadICSFromReader's loop over the      *)
(* VEVENT components.                                                      *)
(***************************************************************************)
OneHour == 1

\* The content lines of a payload: the tokens between newlines.
RECURSIVE SplitLines(_, _)
SplitLines(toks, cur) ==
    IF toks = <<>> THEN (IF cur = <<>> THEN <<>> ELSE <<cur>>)
    ELSE IF IsNL(Head(toks)) THEN <<cur>> \o SplitLines(Tail(toks), <<>>)
    ELSE SplitLines(Tail(toks), Append(cur, Head(toks)))

\* A content line the parser accepts: a property name, then its value.
WellFormed(line) ==
    /\ line # <<>>
    /\ line[1].t = "kw"
    /\ \A i \in 2 .. Len(line) : line[i].t # "kw"

RECURSIVE TextOf(_)
TextOf(toks) ==
    IF toks = <<>> THEN <<>> ELSE <<Head(toks).v>> \o TextOf(Tail(toks))

\* The TEXT unescaping of RFC 5545, as an ics parser applying it does.
RECURSIVE Unescape(_)
Unescape(s) ==
    IF s = <<>> THEN <<>>
    ELSE IF Head(s) = "\\" /\ Len(s) >= 2
           THEN <<(IF s[2] = "n" THEN "\n" ELSE s[2])>> \o Unescape(Tail(Tail(s)))
    ELSE <<Head(s)>> \o Unescape(Tail(s))

\* prop.Value of a parsed property line.
ValueOf(line, unesc) ==
    LET raw == TextOf(SubSeq(line, 2, Len(line)))
    IN  IF unesc THEN Unescape(raw) ELSE raw

\* GetStartAt / GetEndAt on a 'Z' timestamp: the fields read as UTC.
ParseStamp(tok) == [inst |-> tok.n, off |-> 0]

NoTitle == <<"(No title)">>

\* The RRULE values the payloads use; a payload names one by its index.
RuleTable ==
    << <<FreqPart("DAILY"), CountPart(2)>>,
       <<FreqPart("MONTHLY")>>,
       <<FreqPart("FORTNIGHTLY")>> >>

RuleTok(k) == [t |-> "rule", v |-> "", n |-> k]

NoProps == [hasStart |-> FALSE, start |-> [inst |-> 0, off |-> 0],
            hasEnd |-> FALSE, end |-> [inst |-> 0, off |-> 0],
            summary |-> <<>>, description |-> <<>>, uid |-> "", rrule |-> <<>>]

\* The properties of one VEVENT, gathered line by line.
Gather(props, line, unesc) ==
    LET name == line[1].v
    IN  CASE name = "DTSTART:" /\ Len(line) = 2 /\ line[2].t = "stamp" ->
                [props EXCEPT !.hasStart = TRUE, !.start = ParseStamp(line[2])]
          [] name = "DTEND:" /\ Len(line) = 2 /\ line[2].t = "stamp" ->
                [props EXCEPT !.hasEnd = TRUE, !.end = ParseStamp(line[2])]
          [] name = "SUMMARY:" -> [props EXCEPT !.summary = ValueOf(line, unesc)]
          [] name = "DESCRIPTION:" -> [props EXCEPT !.description = ValueOf(line, unesc)]
          [] name = "UID:" /\ Len(line) = 2 /\ line[2].t = "uid" ->
                [props EXCEPT !.uid = line[2].v]
          [] name \in {"RRULE:", "rrule:"} /\ Len(line) = 2 /\ line[2].t = "rule" ->
                [props EXCEPT !.rrule = RuleTable[line[2].n]]
          [] OTHER -> props

\* Every record read as a single event.
NeverRule(props) == FALSE

\* No record skipped.
NeverDropped(props) == FALSE

\* start, err := event.GetStartAt(); err != nil: the record is skipped.
Dropped(props) == ~props.hasStart

\* A record without an end given a zero duration.
DefaultEndSame(start) == start

\* end, err := event.GetEndAt(); err != nil: end = start.Add(time.Hour)
DefaultEnd(start) == [start EXCEPT !.inst = @ + OneHour]

\* rruleValue != ""
HasRule(props) == props.rrule # <<>>

\* loadICSFromReader's loop body: no start, no Event; no end, start + 1h;
\* empty summary, "(No title)"; with a rule one Event per occurrence up to
\* a year from now, without one a single Event.
EventsOf(props, calendarName, color) ==
    IF Dropped(props) THEN <<>>
    ELSE LET end == IF props.hasEnd THEN props.end ELSE DefaultEnd(props.start)
             EventAt(st, en) ==
                 [Summary     |-> IF props.summary = <<>> THEN NoTitle ELSE props.summary,
                  Description |-> props.description,
                  CalendarName |-> calendarName,
                  CalendarColor |-> color,
                  Start       |-> st,
                  End         |-> en,
                  UID         |-> props.uid]
         IN  IF HasRule(props)
               THEN LET Spread(occs) ==
                            [ k \in 1 .. Len(occs) |->
                                EventAt([inst |-> occs[k].Start, off |-> 0],
                                        [inst |-> occs[k].End, off |-> 0]) ]
                    IN  Spread(expandRecurringEvent(props.start.inst, end.inst,
                                   props.rrule, AddDate(clock, 1, 0, 0), clock))
               ELSE << EventAt(props.start, end) >>

\* The scan over the content lines: [err, out], out the Events in payload
\* order, each tagged with the calendar name and color passed in.
RECURSIVE ReadLines(_, _, _, _, _, _, _)
ReadLines(lines, i, inEvent, props, unesc, calendarName, color) ==
    IF i > Len(lines) THEN [err |-> inEvent, out |-> <<>>]
    ELSE LET line == lines[i]
         IN  IF ~WellFormed(line) THEN [err |-> TRUE, out |-> <<>>]
             ELSE IF line[1].v = "BEGIN:VEVENT"
               THEN ReadLines(lines, i + 1, TRUE, NoProps, unesc, calendarName, color)
             ELSE IF line[1].v = "END:VEVENT"
               THEN LET rest == ReadLines(lines, i + 1, FALSE, NoProps, unesc,
                                          calendarName, color)
                    IN  [err |-> rest.err \/ ~inEvent,
                         out |-> EventsOf(props, calendarName, color) \o rest.out]
             ELSE IF inEvent
               THEN ReadLines(lines, i + 1, TRUE, Gather(props, line, unesc), unesc,
                              calendarName, color)
             ELSE ReadLines(lines, i + 1, FALSE, props, unesc, calendarName, color)

ReadPayload(toks, unesc, calendarName, color) ==
    LET lines == SplitLines(toks, <<>>)
    IN  IF lines = <<>> \/ ~WellFormed(lines[1]) \/ lines[1][1].v # "BEGIN:VCALENDAR"
          THEN [err |-> TRUE, out |-> <<>>]
          ELSE ReadLines(lines, 1, FALSE, NoProps, unesc, calendarName, color)

\* loadICSFromReader on the payload that was PUT.
loadICSFromReader ==
    /\ cpc = "created"
    /\ LET r == ReadPayload(icsContent, unescapes, "work", "205")
       IN  /\ readErr' = r.err
           /\ events' = IF r.err THEN <<>> ELSE r.out
    /\ cpc' = "decoded"
    /\ UNCHANGED <<event, unescapes, icsContent, eventURL, createErr, putReply>>

(***************************************************************************)
(* The events the codec is checked on.                                     *)
(***************************************************************************)
Texts(n) == UNION { [1 .. k -> Alphabet] : k \in 0 .. n }

ZoneOffsets == {-1, 0, 1}

Time(i, o) == [inst |-> i, off |-> o]

NewEvents ==
    { [Summary |-> su, Description |-> de, Start |-> Time(At(Today, 0), zo),
       End |-> Time(At(Today, 1), zo), UID |-> u] :
        su \in Texts(MaxSummaryLen), de \in Texts(1), zo \in ZoneOffsets,
        u \in {"", "u1"} }

InitCodec ==
    /\ event \in NewEvents
    /\ unescapes \in BOOLEAN
    /\ cpc = "create"
    /\ icsContent = <<>>
    /\ eventURL = <<>>
    /\ createErr = NoError
    /\ putReply = PutReply(0, "")
    /\ events = <<>>
    /\ readErr = FALSE

\* Nothing to upload or read.
IdleCodec ==
    /\ event = [Summary |-> <<>>, Description |-> <<>>, Start |-> Time(0, 0),
                End |-> Time(0, 0), UID |-> ""]
    /\ unescapes = FALSE
    /\ cpc = "decoded"
    /\ icsContent = <<>>
    /\ eventURL = <<>>
    /\ createErr = NoError
    /\ putReply = PutReply(0, "")
    /\ events = <<>>
    /\ readErr = FALSE

(***************************************************************************)
(* Properties of the codec.                                                *)
(***************************************************************************)
\* C6: decoding the payload built for an Event yields exactly one Event with
\* the same summary, description, start instant and end instant.
C6_RoundTrip ==
    cpc = "decoded" =>
        /\ ~readErr
        /\ Len(events) = 1
        /\ events[1].Summary = event.Summary
        /\ events[1].Description = event.Description
        /\ events[1].Start.inst = event.Start.inst
        /\ events[1].End.inst = event.End.inst

\* C17: the upload reports success exactly when the PUT was answered 201 or
\* 204; any other status gives an error carrying the response body, a
\* transport failure gives an error.
C17_SuccessIff201Or204 ==
    cpc \in {"created", "decoded"} =>
        /\ (createErr = NoError) <=> (putReply.status \in {201, 204})
        /\ (putReply.status \notin {0, 201, 204}) =>
              (createErr.msg # "" /\ createErr.body = putReply.body)
        /\ (putReply.status = 0) => createErr.msg = "transport"

\* A 200 answer: an error carrying the body.
C17_Witness ==
    /\ cpc = "created" /\ putReply.status = 200
    /\ createErr.msg # "" /\ createErr.body = "OK"

\* The value written on the payload line that starts with keyword kw.
Written(kw) ==
    LET k == CHOOSE i \in 1 .. Len(icsContent) - 1 : icsContent[i] = Kw(kw)
    IN  icsContent[k + 1]

\* C20: the DTSTART and DTEND of the payload are the UTC stamps of the
\* Event's start and end instants, whatever zone the Event's times carry.
C20_StampsAreUTCInstants ==
    cpc \in {"created", "decoded"} =>
        /\ Written("DTSTART:") = Stamp(event.Start.inst)
        /\ Written("DTEND:") = Stamp(event.End.inst)

\* The characters escapeICSValue replaces.
Specials == {"\\", ",", ";", "\n"}

\* The text written after the property name on line k of the payload.
WrittenText(k) == TextOf(Tail(SplitLines(icsContent, <<>>)[k]))

\* What the claim asks of the value written for a text field.
EscapedOnce(written, text) ==
    /\ \A i \in 1 .. Len(written) : written[i] # "\n"
    /\ Len(written) = Len(text) + Cardinality({ i \in 1 .. Len(text) : text[i] \in Specials })
    /\ \A i \in 1 .. Len(written) :
          written[i] \in {",", ";"} => (i > 1 /\ written[i - 1] = "\\")
    /\ Unescape(written) = text

\* C28: the SUMMARY and DESCRIPTION values of the payload hold no raw
\* newline; each backslash, comma, semicolon and newline of the text is
\* escaped once, so that unescaping gives the text back (the escaping is
\* injective); the payload keeps its eleven lines whatever the text.
C28_TextCannotBreakItsLine ==
    cpc = "created" =>
        LET lines == SplitLines(icsContent, <<>>)
        IN  /\ Len(lines) = 11
            /\ lines[8][1] = Kw("SUMMARY:")
            /\ lines[9][1] = Kw("DESCRIPTION:")
            /\ lines[10] = <<Kw("END:VEVENT")>>
            /\ EscapedOnce(TextOf(Tail(lines[8])), event.Summary)
            /\ EscapedOnce(TextOf(Tail(lines[9])), event.Description)

\* A summary of a backslash and a comma: four characters written.
C28_Witness ==
    /\ cpc = "created"
    /\ event.Summary = <<"\\", ",">>
    /\ event.Description = <<"\n">>
    /\ WrittenText(8) = <<"\\", "\\", "\\", ",">>
    /\ WrittenText(9) = <<"\\", "n">>

\* C26: for a collection address that ends with '/', as discovery returns
\* them, the address of the PUT is the collection address followed by
\* <uid>.ics: one '/' between the collection path and the file name.
C26_OneSlashBeforeFileName ==
    (cpc \in {"created", "decoded"} /\ CalendarURL[Len(CalendarURL)] = "/") =>
        /\ eventURL = CalendarURL \o <<event.UID, ".ics">>
        /\ \A i \in 1 .. (Len(eventURL) - 1) :
              ~(eventURL[i] = "/" /\ eventURL[i + 1] = "/")

(***************************************************************************)
(* loadCalendarsFromRadicale(config): collection discovery.                *)
(*                                                                         *)
(* A path or href is a sequence of tokens, "/" or a path segment.  A reply  *)
(* to the PROPFIND is [kind, status, entries]: a transport error, a        *)
(* status with a body, and for a 207 either a body xml.Unmarshal rejects   *)
(* or the <response> elements, each [Href, Propstat], a propstat being     *)
(* [Status, DisplayName].                                                  *)
(***************************************************************************)
Username == "alice"

ServerURL == <<"http://server">>

UserPath == <<"/", Username, "/">>
RootPath == <<"/">>

\* pathsToTry without the fallback to root.
OnlyUserPath == <<UserPath>>

\* pathsToTry
pathsToTry == <<UserPath, RootPath>>

HasPrefixSlash(h) == h # <<>> /\ h[1] = "/"
HasSuffixSlash(h) == h # <<>> /\ h[Len(h)] = "/"

\* strings.TrimSuffix(h, "/")
TrimSuffixSlash(h) == IF HasSuffixSlash(h) THEN SubSeq(h, 1, Len(h) - 1) ELSE h

\* strings.Count(h, "/")
CountSlash(h) == Cardinality({i \in 1 .. Len(h) : h[i] = "/"})

\* path.Base: "." for the empty path, "/" for a path of slashes only, else
\* the last segment, trailing slashes dropped.
RECURSIVE PathBase(_)
PathBase(p) ==
    IF p = <<>> THEN "."
    ELSE IF p[Len(p)] = "/"
      THEN (IF Len(p) = 1 THEN "/" ELSE PathBase(SubSeq(p, 1, Len(p) - 1)))
    ELSE p[Len(p)]

\* strings.Contains(status, "200") on the status lines the replies use.
Contains200(status) == status = "HTTP/1.1 200 OK"

\* The index of the first propstat with a 200 status, 0 when there is none.
SuccessfulPropstat(ps) ==
    IF \E i \in 1 .. Len(ps) : Contains200(ps[i].Status)
      THEN CHOOSE i \in 1 .. Len(ps) :
              /\ Contains200(ps[i].Status)
              /\ \A j \in 1 .. (i - 1) : ~Contains200(ps[j].Status)
      ELSE 0

\* The href made absolute and slash-terminated.
NormalizeHref(href, basePath) ==
    LET abs == IF HasPrefixSlash(href) THEN href
               ELSE IF HasSuffixSlash(basePath) THEN basePath \o href
               ELSE basePath \o <<"/">> \o href
    IN  IF HasSuffixSlash(abs) THEN abs ELSE abs \o <<"/">>

\* The base-path test: the base path itself, "/" or "//".
IsBaseOrRoot(href, basePath) ==
    LET nb == IF HasSuffixSlash(basePath) THEN basePath ELSE basePath \o <<"/">>
    IN  href = nb \/ href = <<"/">> \/ href = <<"/", "/">>

\* SkipCollection with the username test reaching one level deeper.
SkipCollectionDeep(href) ==
    LET pathName == PathBase(TrimSuffixSlash(href))
    IN  \/ pathName = "user"
        \/ pathName = "principals"
        \/ (pathName = Username /\ CountSlash(href) <= 3)

\* The system-collection filter.
SkipCollection(href) ==
    LET pathName == PathBase(TrimSuffixSlash(href))
    IN  \/ pathName = "user"
        \/ pathName = "principals"
        \/ (pathName = Username /\ CountSlash(href) <= 2)

\* The loop body for one <response>: the calendars it appends (none or one).
CalendarsOf(r, basePath) ==
    LET k    == SuccessfulPropstat(r.Propstat)
        href == NormalizeHref(r.Href, basePath)
        name == IF r.Propstat[k].DisplayName = ""
                  THEN PathBase(TrimSuffixSlash(href))
                  ELSE r.Propstat[k].DisplayName
    IN  IF k = 0 THEN <<>>
        ELSE IF IsBaseOrRoot(href, basePath) THEN <<>>
        ELSE IF SkipCollection(href) THEN <<>>
        ELSE <<[DisplayName |-> name, URL |-> ServerURL \o href]>>

RECURSIVE ParseResponses(_, _)
ParseResponses(entries, basePath) ==
    IF entries = <<>> THEN <<>>
    ELSE CalendarsOf(Head(entries), basePath) \o ParseResponses(Tail(entries), basePath)

\* The early return: calendars were found on this path.
NeverFound(cals) == FALSE

FoundCalendars(cals) == Len(cals) > 0

Propstats ==
    { <<[Status |-> "HTTP/1.1 200 OK", DisplayName |-> "Work"]>>,
      <<[Status |-> "HTTP/1.1 200 OK", DisplayName |-> ""]>>,
      <<[Status |-> "HTTP/1.1 404 Not Found", DisplayName |-> ""],
        [Status |-> "HTTP/1.1 200 OK", DisplayName |-> "Home"]>>,
      <<[Status |-> "HTTP/1.1 404 Not Found", DisplayName |-> "Lost"]>> }

Hrefs ==
    { <<"/", "alice", "/">>,
      <<"/", "alice", "/", "work", "/">>,
      <<"work">>,
      <<"/">>,
      <<"/", "principals", "/">>,
      <<"/", "alice", "/", "alice", "/">> }

Entries == { [Href |-> h, Propstat |-> ps] : h \in Hrefs, ps \in Propstats }

Listings == UNION { [1 .. k -> Entries] : k \in 0 .. MaxEntries }

Reply(kind, status, entries) == [kind |-> kind, status |-> status, entries |-> entries]

NoReply == Reply("none", 0, <<>>)

Replies ==
    {Reply("transport", 0, <<>>), Reply("status", 404, <<>>), Reply("status", 200, <<>>),
     Reply("badxml", 207, <<>>)}
    \cup {Reply("multistatus", 207, l) : l \in Listings}

\* The PROPFIND of one loop iteration goes out and its reply comes back.
SendPropfind ==
    /\ dpc = "request"
    /\ requests' = Append(requests, pathsToTry[pathIdx])
    /\ resp' \in Replies
    /\ replyKinds' = Append(replyKinds, resp'.kind)
    /\ dpc' = "response"
    /\ UNCHANGED <<pathIdx, calendars, lastErr, yields, discovered>>

\* The rest of the loop iteration, and what follows the loop after the last.
HandleListing ==
    /\ dpc = "response"
    /\ LET basePath == pathsToTry[pathIdx]
           err  == CASE resp.kind = "transport" -> "transport"
                     [] resp.kind = "status"    -> "failed to discover calendars"
                     [] resp.kind = "badxml"    -> "xml"
                     [] OTHER                   -> lastErr
           cals == IF resp.kind = "multistatus"
                     THEN calendars \o ParseResponses(resp.entries, basePath)
                     ELSE calendars
           found == resp.kind = "multistatus" /\ resp.entries # <<>> /\ FoundCalendars(cals)
       IN  /\ lastErr' = err
           /\ calendars' = cals
           /\ yields' = Append(yields, Len(cals))
           /\ IF found
                THEN /\ dpc' = "done"
                     /\ discovered' = [cals |-> cals, err |-> ""]
                     /\ UNCHANGED <<pathIdx, resp>>
              ELSE IF pathIdx < Len(pathsToTry)
                THEN /\ dpc' = "request"
                     /\ pathIdx' = pathIdx + 1
                     /\ resp' = NoReply
                     /\ UNCHANGED discovered
              ELSE /\ dpc' = "done"
                   /\ discovered' = [cals |-> <<>>,
                                     err |-> IF err # "" THEN err ELSE "no calendars found"]
                   /\ UNCHANGED <<pathIdx, resp>>
    /\ UNCHANGED <<requests, replyKinds>>

InitDiscover ==
    /\ dpc = "request"
    /\ pathIdx = 1
    /\ resp = NoReply
    /\ calendars = <<>>
    /\ lastErr = ""
    /\ requests = <<>>
    /\ yields = <<>>
    /\ discovered = [cals |-> <<>>, err |-> ""]
    /\ replyKinds = <<>>

\* No discovery running.
IdleDiscover ==
    /\ dpc = "done"
    /\ pathIdx = 1
    /\ resp = NoReply
    /\ calendars = <<>>
    /\ lastErr = ""
    /\ requests = <<>>
    /\ yields = <<>>
    /\ discovered = [cals |-> <<>>, err |-> ""]
    /\ replyKinds = <<>>

(***************************************************************************)
(* Properties of discovery.                                                *)
(***************************************************************************)
Discovered == dpc = "done"

\* The path segments of an address.
Segments(h) == SelectSeq(h, LAMBDA x : x # "/")

LastSegment(h) == Segments(h)[Len(Segments(h))]

\* An entry the claim keeps: (a) a property block with a 200 status, (b) its
\* normalized address neither the base path nor root, (c) its last segment
\* neither user nor principals, nor the username as a direct child of root.
Usable(e, basePath) ==
    LET a == NormalizeHref(e.Href, basePath)
    IN  /\ \E i \in 1 .. Len(e.Propstat) : e.Propstat[i].Status = "HTTP/1.1 200 OK"
        /\ a # basePath
        /\ Segments(a) # <<>>
        /\ LastSegment(a) \notin {"user", "principals"}
        /\ ~(LastSegment(a) = Username /\ Len(Segments(a)) = 1)

\* The display name the entry's 200 block reports, or its last path segment.
NameOf(e, basePath) ==
    LET ok == SelectSeq(e.Propstat, LAMBDA p : p.Status = "HTTP/1.1 200 OK")
    IN  IF ok[1].DisplayName # "" THEN ok[1].DisplayName
        ELSE LastSegment(NormalizeHref(e.Href, basePath))

\* C7: for a 207 listing reply, discovery returns exactly the usable entries
\* of the listing, in order, each under its display name (or last segment).
C7_ExactlyUsableEntries ==
    (Discovered /\ resp.kind = "multistatus") =>
        LET basePath == pathsToTry[pathIdx]
            kept == SelectSeq(resp.entries, LAMBDA e : Usable(e, basePath))
        IN  /\ Len(discovered.cals) = Len(kept)
            /\ \A i \in 1 .. Len(kept) :
                  /\ discovered.cals[i].DisplayName = NameOf(kept[i], basePath)
                  /\ discovered.cals[i].URL = ServerURL \o NormalizeHref(kept[i].Href, basePath)
            /\ (discovered.err = "" <=> kept # <<>>)

\* The example of C7: the reply to /alice/ lists /alice/ and /alice/work/
\* (display name Work), and exactly one collection, Work, is returned.
C7_Witness ==
    /\ Discovered /\ requests = <<UserPath>> /\ resp.kind = "multistatus"
    /\ Len(resp.entries) = 2
    /\ resp.entries[1].Href = <<"/", "alice", "/">>
    /\ resp.entries[1].Propstat[1].Status = "HTTP/1.1 200 OK"
    /\ resp.entries[2].Href = <<"/", "alice", "/", "work", "/">>
    /\ resp.entries[2].Propstat[1].DisplayName = "Work"
    /\ discovered.err = ""
    /\ Len(discovered.cals) = 1
    /\ discovered.cals[1].DisplayName = "Work"

\* C10: the listing goes to /<username>/ first and to / only if the first
\* path yielded no usable entry; the call returns as soon as a path yields
\* one, so at most two requests are sent and the result holds the entries of
\* one path only.
C10_UserPathThenRoot ==
    /\ requests \in {<<>>, <<UserPath>>, <<UserPath, RootPath>>}
    /\ (Len(requests) = 2 => yields[1] = 0)
    /\ \A i \in 1 .. Len(yields) :
          yields[i] > 0 => (Discovered /\ i = Len(yields) /\ discovered.err = "")
    /\ (Discovered /\ discovered.err = "") =>
          discovered.cals = ParseResponses(resp.entries, requests[Len(requests)])

\* The fallback at work: the first path yielded nothing, / yielded a collection.
C10_Witness ==
    /\ Discovered /\ discovered.err = ""
    /\ requests = <<UserPath, RootPath>>
    /\ yields[1] = 0
    /\ Len(discovered.cals) >= 1

\* The replies that make a path fail: no reply, a status other than 207, a
\* body that is not XML.
FailKinds == {"transport", "status", "badxml"}

\* C11 as stated: an error is returned only if every path failed.
C11_ErrorOnlyIfEveryPathFails ==
    (Discovered /\ discovered.err # "") =>
        /\ Len(replyKinds) = Len(pathsToTry)
        /\ \A i \in 1 .. Len(replyKinds) : replyKinds[i] \in FailKinds

\* C11: a failed /<username>/ listing is followed by the / listing; an error
\* is returned only after both paths were asked and neither yielded a
\* collection (it failed, or its listing held no usable entry); a return
\* without error holds at least one collection.
C11_ErrorOnlyIfNoPathYields ==
    /\ (Discovered /\ replyKinds[1] \in FailKinds) => requests = <<UserPath, RootPath>>
    /\ (Discovered /\ discovered.err # "") =>
          /\ requests = <<UserPath, RootPath>>
          /\ \A i \in 1 .. Len(yields) : yields[i] = 0
    /\ (Discovered /\ discovered.err = "") => Len(discovered.cals) >= 1

\* /<username>/ fails, / lists a collection: no error.
C11_Witness ==
    /\ Discovered /\ Len(replyKinds) = 2
    /\ replyKinds[1] \in FailKinds /\ replyKinds[2] = "multistatus"
    /\ discovered.err = "" /\ Len(discovered.cals) >= 1

(***************************************************************************)
(* loadICSFromRadicale(calendarURL, calendarName, color, config): the      *)
(* candidate-address loop.                                                 *)
(*                                                                         *)
(* A reply to the GET is [kind, status, body, blocks]: a transport error,  *)
(* or a status with a body (a token sequence, as the payloads are); for a  *)
(* 207, blocks are the contents of the body's <C:calendar-data> elements.  *)
(***************************************************************************)
\* The candidates in the order: address + extension, address without
\* trailing slash + extension, address without trailing slash, address.
StatedOrder(url) ==
    << url \o <<".ics">>, TrimSuffixSlash(url) \o <<".ics">>, TrimSuffixSlash(url), url >>

\* urlsToTry for a collection address.
urlsToTry(url) ==
    LET baseURL == TrimSuffixSlash(url)
    IN  << baseURL \o <<".ics">>, url \o <<".ics">>, baseURL, url >>

\* strings.HasPrefix(strings.TrimSpace(body), "BEGIN:VCALENDAR")
RECURSIVE TrimLeft(_)
TrimLeft(body) ==
    IF body # <<>> /\ IsNL(Head(body)) THEN TrimLeft(Tail(body)) ELSE body

IsCalendarData(body) ==
    LET b == TrimLeft(body)
    IN  b # <<>> /\ b[1] = Kw("BEGIN:VCALENDAR")

\* The XML entities parseCalendarFromMultistatus decodes, one token each.
DecodeEntity(tok) ==
    IF tok.t # "ch" THEN tok
    ELSE CASE tok.v = "&lt;"   -> Ch("<")
           [] tok.v = "&gt;"   -> Ch(">")
           [] tok.v = "&amp;"  -> Ch("&")
           [] tok.v = "&quot;" -> Ch("\"")
           [] tok.v = "&apos;" -> Ch("'")
           [] OTHER            -> tok

RECURSIVE DecodeEntities(_)
DecodeEntities(toks) ==
    IF toks = <<>> THEN <<>>
    ELSE <<DecodeEntity(Head(toks))>> \o DecodeEntities(Tail(toks))

RECURSIVE JoinBlocks(_)
JoinBlocks(blocks) ==
    IF blocks = <<>> THEN <<>>
    ELSE DecodeEntities(Head(blocks)) \o JoinBlocks(Tail(blocks))

\* parseCalendarFromMultistatus: [err, out].
parseCalendarFromMultistatus(blocks, unesc, calendarName, color) ==
    IF blocks = <<>> THEN [err |-> TRUE, out |-> <<>>]
    ELSE ReadPayload(PayloadLine("BEGIN:VCALENDAR", <<>>) \o PayloadLine("VERSION:2.0", <<>>)
                        \o JoinBlocks(blocks) \o PayloadLine("END:VCALENDAR", <<>>),
                     unesc, calendarName, color)

\* What one loop iteration does with the reply: "return" (out, err) or "next"
\* (err the new lastErr).
StrictOutcome(reply, unesc, calendarName, color) ==
    IF reply.kind = "transport" THEN [do |-> "return", out |-> <<>>, err |-> "transport"]
    ELSE IF reply.status = 200 /\ IsCalendarData(reply.body)
      THEN LET r == ReadPayload(reply.body, unesc, calendarName, color)
           IN  [do |-> "return", out |-> IF r.err THEN <<>> ELSE r.out,
                err |-> IF r.err THEN "failed to parse calendar data" ELSE ""]
    ELSE [do |-> "return", out |-> <<>>, err |-> "HTTP"]

Outcome(reply, unesc, calendarName, color) ==
    IF reply.kind = "transport" THEN [do |-> "next", out |-> <<>>, err |-> "transport"]
    ELSE IF reply.status = 200
      THEN IF IsCalendarData(reply.body)
             THEN LET r == ReadPayload(reply.body, unesc, calendarName, color)
                  IN  IF ~r.err THEN [do |-> "return", out |-> r.out, err |-> ""]
                      ELSE [do |-> "next", out |-> <<>>,
                            err |-> "failed to parse calendar data"]
             ELSE [do |-> "next", out |-> <<>>, err |-> "response is not calendar data"]
    ELSE IF reply.status = 207
      THEN LET r == parseCalendarFromMultistatus(reply.blocks, unesc, calendarName, color)
           IN  [do |-> "return", out |-> IF r.err THEN <<>> ELSE r.out,
                err |-> IF r.err THEN "no calendar-data" ELSE ""]
    ELSE [do |-> "next", out |-> <<>>, err |-> "HTTP"]

\* One loop iteration against a server that answers with reply, and the
\* return that follows the loop after the last candidate.
FetchCandidate(reply) ==
    /\ fpc = "loop"
    /\ fRequests' = Append(fRequests, urlsToTry(calendarURL)[urlIdx])
    /\ fReplies' = Append(fReplies, reply)
    /\ lastStatus' = IF reply.kind = "transport" THEN lastStatus ELSE reply.status
    /\ LET o == Outcome(reply, unescapes, "work", "205")
       IN  IF o.do = "return"
             THEN /\ fetched' = [events |-> o.out, err |-> o.err]
                  /\ fpc' = "done"
                  /\ UNCHANGED <<urlIdx, fLastErr>>
           ELSE /\ fLastErr' = o.err
                /\ IF urlIdx < Len(urlsToTry(calendarURL))
                     THEN /\ urlIdx' = urlIdx + 1
                          /\ UNCHANGED <<fpc, fetched>>
                     ELSE /\ fpc' = "done"
                          /\ fetched' = [events |-> <<>>, err |-> "failed to load calendar"]
                          /\ UNCHANGED urlIdx
    /\ UNCHANGED calendarURL

\* Events held by the server's calendars.
ServerEvent(uid, text) ==
    [Summary |-> text, Description |-> <<>>, Start |-> [inst |-> Today * SlotsPerDay, off |-> 0],
     End |-> [inst |-> Today * SlotsPerDay + 1, off |-> 0], UID |-> uid]

RECURSIVE EventBlocks(_)
EventBlocks(evs) ==
    IF evs = <<>> THEN <<>> ELSE EventBlock(Head(evs)) \o EventBlocks(Tail(evs))

CalendarOf(evs) == CalendarHead \o EventBlocks(evs) \o CalendarFoot

HtmlBody == <<Kw("<html>"), NL>>

BrokenCalendar == PayloadLine("BEGIN:VCALENDAR", <<>>) \o <<Ch("a"), NL>>

GoodBodies ==
    { CalendarOf(<<>>),
      <<NL>> \o CalendarOf(<<ServerEvent("u1", <<"a">>)>>),
      CalendarOf(<<ServerEvent("u1", <<"a">>), ServerEvent("u2", <<"n", ",">>)>>) }

Get(kind, status, body, blocks) ==
    [kind |-> kind, status |-> status, body |-> body, blocks |-> blocks]

GetReplies ==
    { Get("transport", 0, <<>>, <<>>),
      Get("http", 404, HtmlBody, <<>>),
      Get("http", 500, <<>>, <<>>),
      Get("http", 200, HtmlBody, <<>>),
      Get("http", 200, BrokenCalendar, <<>>),
      Get("http", 207, HtmlBody, <<>>),
      Get("http", 207, HtmlBody, <<EventBlock(ServerEvent("u1", <<"a", "&amp;">>))>>) }
    \cup { Get("http", 200, b, <<>>) : b \in GoodBodies }

CollectionURLs ==
    { ServerURL \o <<"/", "alice", "/", "work", "/">>,
      ServerURL \o <<"/", "alice", "/", "work">> }

InitFetch ==
    /\ fpc = "loop"
    /\ calendarURL \in CollectionURLs
    /\ urlIdx = 1
    /\ fLastErr = ""
    /\ lastStatus = 0
    /\ fRequests = <<>>
    /\ fReplies = <<>>
    /\ fetched = [events |-> <<>>, err |-> ""]

\* No fetch running.
IdleFetch ==
    /\ fpc = "done"
    /\ calendarURL = <<>>
    /\ urlIdx = 1
    /\ fLastErr = ""
    /\ lastStatus = 0
    /\ fRequests = <<>>
    /\ fReplies = <<>>
    /\ fetched = [events |-> <<>>, err |-> ""]

(***************************************************************************)
(* Properties of the fetch.                                                *)
(***************************************************************************)
\* A reply the claim calls valid: 200, the body starts with the container
\* start marker (after leading white space) and parses.
ValidReply(r) ==
    /\ r.kind = "http" /\ r.status = 200
    /\ \E i \in 1 .. Len(r.body) :
          /\ r.body[i] = Kw("BEGIN:VCALENDAR")
          /\ \A j \in 1 .. (i - 1) : r.body[j] = NL
    /\ ~ReadPayload(r.body, unescapes, "work", "205").err

\* A reply the claim calls failed: a transport error, an error status, or a
\* 200 whose body is not calendar data.
FailedReply(r) ==
    \/ r.kind = "transport"
    \/ (r.kind = "http" /\ r.status >= 400)
    \/ (r.kind = "http" /\ r.status = 200 /\ ~ValidReply(r))

\* C8: while every candidate so far failed and candidates remain, the fetch
\* goes on; a candidate that answers with a valid calendar ends it: its
\* decoded events are returned without error and nothing more is requested.
C8_FirstValidCandidateWins ==
    /\ ((\A j \in 1 .. Len(fReplies) : FailedReply(fReplies[j])) /\ Len(fReplies) < 4)
          => (fpc = "loop" /\ urlIdx = Len(fReplies) + 1)
    /\ \A k \in 1 .. Len(fReplies) :
          ValidReply(fReplies[k]) =>
              /\ fpc = "done"
              /\ k = Len(fReplies) /\ k = Len(fRequests)
              /\ fetched.err = ""
              /\ fetched.events = ReadPayload(fReplies[k].body, unescapes, "work", "205").out

\* C12 as stated: the k-th request goes to the k-th address of the stated
\* order.
C12_StatedOrder ==
    \A k \in 1 .. Len(fRequests) : fRequests[k] = StatedOrder(calendarURL)[k]

\* The address without a trailing slash.
Trimmed(url) == IF url[Len(url)] = "/" THEN SubSeq(url, 1, Len(url) - 1) ELSE url

\* C12: the requests go, in order, to (1) the address without trailing slash
\* + extension, (2) the address + extension, (3) the address without
\* trailing slash, (4) the address; each one only after every earlier
\* candidate failed.
C12_CodeOrder ==
    /\ Len(fRequests) <= 4
    /\ \A k \in 1 .. Len(fRequests) :
          fRequests[k] = CASE k = 1 -> Trimmed(calendarURL) \o <<".ics">>
                           [] k = 2 -> calendarURL \o <<".ics">>
                           [] k = 3 -> Trimmed(calendarURL)
                           [] OTHER -> calendarURL
    /\ \A j \in 1 .. (Len(fReplies) - 1) : FailedReply(fReplies[j])

\* All four candidates of an address with a trailing slash were requested.
C12_Witness ==
    /\ fpc = "done" /\ Len(fRequests) = 4
    /\ calendarURL[Len(calendarURL)] = "/"
    /\ fRequests[1] # fRequests[2]
    /\ fRequests[2] = calendarURL \o <<".ics">>

\* C13: an error is returned only after all four candidates were requested,
\* and while candidates remain a reply without usable events leaves the
\* fetch running.
NoUsableEvents(r) ==
    \/ r.kind = "transport"
    \/ (r.kind = "http" /\ r.status \notin {200, 207})
    \/ (r.kind = "http" /\ r.status = 200 /\ ~ValidReply(r))
    \/ (r.kind = "http" /\ r.status = 207
          /\ parseCalendarFromMultistatus(r.blocks, unescapes, "work", "205").err)

C13_ErrorOnlyAfterAllFour ==
    /\ (fpc = "done" /\ fetched.err # "") => Len(fRequests) = 4
    /\ ((\A j \in 1 .. Len(fReplies) : NoUsableEvents(fReplies[j])) /\ Len(fReplies) < 4)
          => fpc = "loop"

\* The example of C8: three 404s, then a valid calendar from the fourth candidate.
C8_Witness ==
    /\ fpc = "done" /\ Len(fReplies) = 4
    /\ \A j \in 1 .. 3 : fReplies[j].kind = "http" /\ fReplies[j].status = 404
    /\ ValidReply(fReplies[4])
    /\ fetched.err = "" /\ Len(fetched.events) = 2

(***************************************************************************)
(* loadAllCalendars(radicaleConfig).  One step per source: the config      *)
(* file, the discovery, every iteration of the three loops, the return.    *)
(* Calendar names are token sequences, as addresses are.  The base         *)
(* directory of local files is the one loadConfig found its file in.       *)
(***************************************************************************)
calendarColors == << "205", "117", "229", "120", "183", "216", "86", "211" >>

NextColor(index) == calendarColors[(index % Len(calendarColors)) + 1]

\* An assignment that leaves the entry the key already has in place.
MapAdd(m, k, v) == m \cup { <<k, v>> }

\* m[k] = v on a Go map kept as a set of <<key, value>> pairs.
MapPut(m, k, v) == { p \in m : p[1] # k } \cup { <<k, v>> }

\* The test of the final return, and a stricter variant.
NoEventsOrOne(evs) == Len(evs) <= 1

NoEvents(evs) == Len(evs) = 0

\* icsFile of a local_calendars entry and the calendar name made of it.
IcsFile(localCal) ==
    IF localCal # <<>> /\ localCal[Len(localCal)] = ".ics" THEN localCal
    ELSE localCal \o <<".ics">>

RECURSIVE FileBase(_)
FileBase(f) ==
    IF \E j \in 1 .. Len(f) : f[j] = "/" THEN FileBase(Tail(f)) ELSE f

LocalName(localCal) ==
    LET b == FileBase(IcsFile(localCal))
    IN  IF b # <<>> /\ b[Len(b)] = ".ics" THEN SubSeq(b, 1, Len(b) - 1) ELSE b

\* The Timeout of the client http.Get uses (http.DefaultClient): zero, which
\* means no timeout.
FeedTimeout == 0

\* http.Get never returns: the server stays silent and no timeout ends the wait.
NeverReturns(reply) == reply.kind = "silent" /\ FeedTimeout = 0

\* loadICSFromURL against a server that answers with reply (a silent server
\* is a transport error once the timeout expires).
loadICSFromURL(reply, calendarName, color) ==
    IF reply.kind \in {"transport", "silent"} \/ reply.status # 200
      THEN [err |-> TRUE, out |-> <<>>]
    ELSE ReadPayload(reply.body, unescapes, calendarName, color)

\* loadICSFromFile on a file that is absent or holds content.
loadICSFromFile(file, calendarName, color) ==
    IF ~file.exists THEN [err |-> TRUE, out |-> <<>>]
    ELSE ReadPayload(file.content, unescapes, calendarName, color)

Outcome3(kind, name, r) == [kind |-> kind, name |-> name, err |-> r.err, out |-> r.out]

\* Where the function goes on after each of its sections.
AfterOthers(c) == IF Len(c.LocalCalendars) > 0 THEN "locals" ELSE "final"

AfterCollections(c) == IF Len(c.Calendars) > 0 THEN "others" ELSE AfterOthers(c)

AfterDiscover(c, cals) == IF Len(cals) > 0 THEN "collections" ELSE AfterCollections(c)

AfterConfig(c, rc) ==
    IF rc = "server" THEN "discover" ELSE AfterCollections(c)

\* config, configErr := loadConfig() and the choice of radicaleConfig.
LoadConfigStep(res) ==
    /\ lpc = "config"
    /\ IF res.err
         THEN /\ lpc' = "final"
              /\ UNCHANGED <<config, radicaleConfig>>
         ELSE LET rc == IF res.config.Radicale # "nil" THEN res.config.Radicale
                        ELSE radicaleConfig
              IN  /\ config' = res.config
                  /\ radicaleConfig' = rc
                  /\ lpc' = AfterConfig(res.config, rc)
    /\ outcomes' = Append(outcomes, Outcome3("config", <<>>, [err |-> res.err, out |-> <<>>]))
    /\ UNCHANGED <<radicaleCals, lidx, allEvents, calendarsMap, calendarURLs, colorIndex,
                   warnings, loaded>>

\* radicaleCals, err := loadCalendarsFromRadicale(radicaleConfig)
DiscoverStep(res) ==
    /\ lpc = "discover"
    /\ outcomes' = Append(outcomes, Outcome3("discovery", <<>>, [err |-> res.err, out |-> <<>>]))
    /\ IF res.err
         THEN /\ warnings' = Append(warnings, <<"Failed to connect to Radicale server">>)
              /\ lpc' = AfterCollections(config)
              /\ UNCHANGED radicaleCals
         ELSE /\ radicaleCals' = res.cals
              /\ lpc' = AfterDiscover(config, res.cals)
              /\ UNCHANGED warnings
    /\ lidx' = 1
    /\ UNCHANGED <<config, radicaleConfig, allEvents, calendarsMap, calendarURLs, colorIndex,
                   loaded>>

\* One iteration of the loop over radicaleCals.
CollectionStep(res) ==
    /\ lpc = "collections"
    /\ LET cal   == radicaleCals[lidx]
           color == NextColor(colorIndex)
           evs   == [ k \in 1 .. Len(res.out) |->
                         [res.out[k] EXCEPT !.CalendarName = cal.DisplayName,
                                            !.CalendarColor = color] ]
       IN  /\ calendarsMap' = MapPut(calendarsMap, cal.DisplayName, color)
           /\ calendarURLs' = MapPut(calendarURLs, cal.DisplayName, cal.URL)
           /\ outcomes' = Append(outcomes,
                                 Outcome3("collection", cal.DisplayName,
                                          [err |-> res.err, out |-> evs]))
           /\ IF ~res.err
                THEN /\ allEvents' = allEvents \o evs
                     /\ UNCHANGED warnings
                ELSE /\ warnings' = Append(warnings, cal.DisplayName)
                     /\ UNCHANGED allEvents
    /\ colorIndex' = colorIndex + 1
    /\ IF lidx < Len(radicaleCals)
         THEN lidx' = lidx + 1 /\ UNCHANGED lpc
         ELSE lidx' = 1 /\ lpc' = AfterCollections(config)
    /\ UNCHANGED <<config, radicaleConfig, radicaleCals, loaded>>

\* One iteration of the loop over config.Calendars; src is what the feed's
\* server answers or what the file system holds.
OtherStep(reply, file) ==
    /\ lpc = "others"
    /\ LET cal   == config.Calendars[lidx]
           color == NextColor(colorIndex)
           r     == IF cal.URL # <<>> THEN loadICSFromURL(reply, cal.Name, color)
                    ELSE IF cal.File # <<>> THEN loadICSFromFile(file, cal.Name, color)
                    ELSE [err |-> FALSE, out |-> <<>>]
           hangs == cal.Type # "radicale" /\ cal.URL # <<>> /\ NeverReturns(reply)
       IN  IF cal.Type = "radicale"
             THEN UNCHANGED <<allEvents, calendarsMap, colorIndex, warnings, outcomes>>
           ELSE IF hangs
             THEN /\ calendarsMap' = MapPut(calendarsMap, cal.Name, color)
                  /\ UNCHANGED <<allEvents, colorIndex, warnings, outcomes>>
             ELSE /\ calendarsMap' = MapPut(calendarsMap, cal.Name, color)
                  /\ outcomes' = Append(outcomes,
                                        Outcome3(IF cal.URL # <<>> THEN "feed" ELSE "file",
                                                 cal.Name, r))
                  /\ IF r.err
                       THEN /\ warnings' = Append(warnings, cal.Name)
                            /\ UNCHANGED <<allEvents, colorIndex>>
                       ELSE /\ allEvents' = allEvents \o r.out
                            /\ colorIndex' = colorIndex + 1
                            /\ UNCHANGED warnings
    /\ IF config.Calendars[lidx].Type # "radicale" /\ config.Calendars[lidx].URL # <<>>
            /\ NeverReturns(reply)
         THEN lpc' = "hung" /\ UNCHANGED lidx
         ELSE IF lidx < Len(config.Calendars)
                THEN lidx' = lidx + 1 /\ UNCHANGED lpc
                ELSE lidx' = 1 /\ lpc' = AfterOthers(config)
    /\ UNCHANGED <<config, radicaleConfig, radicaleCals, calendarURLs, loaded>>

\* One iteration of the loop over config.LocalCalendars.
LocalStep(file) ==
    /\ lpc = "locals"
    /\ LET calendarName == LocalName(config.LocalCalendars[lidx])
           color        == NextColor(colorIndex)
           r            == loadICSFromFile(file, calendarName, color)
       IN  /\ outcomes' = Append(outcomes, Outcome3("local", calendarName, r))
           /\ IF ~file.exists
                THEN /\ warnings' = Append(warnings, IcsFile(config.LocalCalendars[lidx]))
                     /\ UNCHANGED <<allEvents, calendarsMap, colorIndex>>
                ELSE /\ calendarsMap' = MapPut(calendarsMap, calendarName, color)
                     /\ IF r.err
                          THEN /\ warnings' = Append(warnings, calendarName)
                               /\ UNCHANGED <<allEvents, colorIndex>>
                          ELSE /\ allEvents' = allEvents \o r.out
                               /\ colorIndex' = colorIndex + 1
                               /\ UNCHANGED warnings
    /\ IF lidx < Len(config.LocalCalendars)
         THEN lidx' = lidx + 1 /\ UNCHANGED lpc
         ELSE lidx' = 1 /\ lpc' = "final"
    /\ UNCHANGED <<config, radicaleConfig, radicaleCals, calendarURLs, loaded>>

\* The final test and the return.
ReturnStep ==
    /\ lpc = "final"
    /\ lpc' = "done"
    /\ loaded' = IF NoEvents(allEvents)
                   THEN [events |-> <<>>, calendars |-> {}, urls |-> {},
                         err |-> "no calendars found"]
                   ELSE [events |-> allEvents, calendars |-> calendarsMap,
                         urls |-> calendarURLs, err |-> ""]
    /\ UNCHANGED <<config, radicaleConfig, radicaleCals, lidx, allEvents, calendarsMap,
                   calendarURLs, colorIndex, warnings, outcomes>>

\* Inputs: config files, and what the sources answer.
CalendarEntry(name, type, url, file) ==
    [Name |-> name, Type |-> type, URL |-> url, File |-> file]

Feed(name) == CalendarEntry(name, "ics", <<"https://feeds", "/", name[1], ".ics">>, <<>>)

FileEntry(name) == CalendarEntry(name, "ics", <<>>, <<name[1], ".ics">>)

ConfigOf(radicale, cals, locals) ==
    [Radicale |-> radicale, Calendars |-> cals, LocalCalendars |-> locals]

EmptyConfig == ConfigOf("nil", <<>>, <<>>)

Configs ==
    { EmptyConfig,
      ConfigOf("server", <<>>, <<>>),
      ConfigOf("server", <<Feed(<<"Work">>)>>, <<>>),
      ConfigOf("nil", <<Feed(<<"News">>), FileEntry(<<"Old">>)>>, <<>>),
      ConfigOf("nil", <<Feed(<<"News">>)>>, << <<"home">> >>),
      ConfigOf("empty",
               <<CalendarEntry(<<"Work">>, "radicale", <<>>, <<>>),
                 CalendarEntry(<<"Blank">>, "ics", <<>>, <<>>)>>,
               << <<"sub", "/", "trips", ".ics">> >>) }

ConfigResults ==
    { [err |-> TRUE, config |-> EmptyConfig] } \cup { [err |-> FALSE, config |-> c] : c \in Configs }

Collection(name) ==
    [DisplayName |-> <<name>>, URL |-> ServerURL \o <<"/", "alice", "/", name, "/">>]

\* A collection of another user shared under a display name already in use.
SharedCollection(name) ==
    [DisplayName |-> <<name>>, URL |-> ServerURL \o <<"/", "bob", "/", name, "/">>]

Discoveries ==
    { [err |-> TRUE, cals |-> <<>>],
      [err |-> FALSE, cals |-> <<Collection("Work")>>],
      [err |-> FALSE, cals |-> <<Collection("Work"), Collection("Home")>>],
      [err |-> FALSE, cals |-> <<Collection("Work"), SharedCollection("Work")>>] }

SourceBodies == { CalendarOf(<<>>), CalendarOf(<<ServerEvent("u1", <<"a">>)>>) }

FetchResults ==
    { [err |-> TRUE, out |-> <<>>] }
    \cup { ReadPayload(b, FALSE, <<>>, "") : b \in SourceBodies }

FeedReplies ==
    { Get("transport", 0, <<>>, <<>>), Get("silent", 0, <<>>, <<>>),
      Get("http", 404, HtmlBody, <<>>) }
    \cup { Get("http", 200, b, <<>>) : b \in SourceBodies }

NoFile == [exists |-> FALSE, content |-> <<>>]

Files == { NoFile } \cup { [exists |-> TRUE, content |-> b] : b \in SourceBodies \cup {BrokenCalendar} }

InitLoad ==
    /\ lpc = "config"
    /\ config = EmptyConfig
    /\ radicaleConfig \in {"nil", "server"}
    /\ radicaleCals = <<>>
    /\ lidx = 1
    /\ allEvents = <<>>
    /\ calendarsMap = {}
    /\ calendarURLs = {}
    /\ colorIndex = 0
    /\ warnings = <<>>
    /\ outcomes = <<>>
    /\ loaded = [events |-> <<>>, calendars |-> {}, urls |-> {}, err |-> ""]

\* No load running.
IdleLoad ==
    /\ lpc = "idle"
    /\ config = EmptyConfig
    /\ radicaleConfig = "nil"
    /\ radicaleCals = <<>>
    /\ lidx = 1
    /\ allEvents = <<>>
    /\ calendarsMap = {}
    /\ calendarURLs = {}
    /\ colorIndex = 0
    /\ warnings = <<>>
    /\ outcomes = <<>>
    /\ loaded = [events |-> <<>>, calendars |-> {}, urls |-> {}, err |-> ""]

(***************************************************************************)
(* Properties of the aggregate load.                                       *)
(***************************************************************************)
\* The events of the sources that answered without error, in order.
RECURSIVE Obtained(_)
Obtained(log) ==
    IF log = <<>> THEN <<>>
    ELSE (IF Head(log).err THEN <<>> ELSE Head(log).out) \o Obtained(Tail(log))

Failures(log) == Cardinality({ k \in 1 .. Len(log) : log[k].err })

\* outcomes[1] is the config file's.  The sources the loaded configuration names: the discovery and each
\* discovered collection, each feed or file, each local file.
SourcesNamed ==
    (IF radicaleConfig = "server"
       THEN 1 + Len(radicaleCals) ELSE 0)
    + Cardinality({ k \in 1 .. Len(config.Calendars) : config.Calendars[k].Type # "radicale" })
    + Len(config.LocalCalendars)

\* C9: the load fails exactly when no source gave an event; otherwise it
\* returns the events of every source that answered, every named source was
\* tried, and each failed source left one warning.
C9_ErrorIffNoEvents ==
    lpc = "done" =>
        /\ (loaded.err # "") <=> (Len(Obtained(outcomes)) = 0)
        /\ loaded.err = "" => loaded.events = Obtained(outcomes)
        /\ ~outcomes[1].err => Len(Tail(outcomes)) = SourcesNamed
        /\ Len(warnings) = Failures(Tail(outcomes))

\* C15: no request waits for ever: a server that never responds ends the
\* request as a failure of that source, so the load is never stuck inside
\* a request.
C15_NoRequestWaitsForEver == lpc # "hung"

\* C16: in the returned colour map only sources that loaded have an entry,
\* the k-th of them (in load order) has the k-th palette colour, and no two
\* entries have the same colour (no configuration here names more sources
\* than the palette has colours).
C16_NextUnusedColor ==
    (lpc = "done" /\ loaded.err = "") =>
        LET ok == SelectSeq(Tail(outcomes), LAMBDA o : ~o.err /\ o.kind # "discovery")
        IN  /\ \A p \in loaded.calendars : \E k \in 1 .. Len(ok) : ok[k].name = p[1]
            /\ \A k \in 1 .. Len(ok) :
                  <<ok[k].name, calendarColors[((k - 1) % Len(calendarColors)) + 1]>>
                      \in loaded.calendars
            /\ \A p, q \in loaded.calendars : p[2] = q[2] => p = q

\* The keys of a map kept as a set of pairs.
Keys(m) == { p[1] : p \in m }

C30_EventColorIsMapColor ==
    (lpc = "done" /\ loaded.err = "") =>
        \A k \in 1 .. Len(loaded.events) :
            <<loaded.events[k].CalendarName, loaded.events[k].CalendarColor>>
                \in loaded.calendars

\* The example of C9: a failing feed and a local file with an event.
C9_Witness ==
    /\ lpc = "done" /\ Len(outcomes) = 3
    /\ outcomes[2].kind = "feed" /\ outcomes[2].err
    /\ outcomes[3].kind = "local" /\ ~outcomes[3].err /\ Len(outcomes[3].out) = 1
    /\ loaded.err = "" /\ loaded.events = outcomes[3].out
    /\ Len(warnings) = 1

(***************************************************************************)
(* main() and initialModel(viewMode, oneShot, radicaleConfig).  Each of    *)
(* the two calls of loadAllCalendars returns one of LoadReturns.           *)
(***************************************************************************)
\* The events and calendars initialModel falls back to: 09:00-09:30 and
\* 12:00-13:00 of the current day, by the slot each falls in.
SampleEvents ==
    << [Summary |-> <<"Team Standup">>, Description |-> <<>>,
        Start |-> Time(At(Today, 0), 0), End |-> Time(At(Today, 0), 0),
        CalendarName |-> <<"Work">>, CalendarColor |-> calendarColors[1], UID |-> ""],
       [Summary |-> <<"Lunch Break">>, Description |-> <<>>,
        Start |-> Time(At(Today, 1), 0), End |-> Time(At(Today, 1), 0),
        CalendarName |-> <<"Personal">>, CalendarColor |-> calendarColors[2], UID |-> ""] >>

SampleCalendars == { << <<"Work">>, calendarColors[1] >>, << <<"Personal">>, calendarColors[2] >> }

LoadFailure == [events |-> <<>>, calendars |-> {}, urls |-> {}, err |-> "no calendars found"]

LoadSuccess(name, body) ==
    [events    |-> ReadPayload(body, FALSE, name, calendarColors[1]).out,
     calendars |-> { <<name, calendarColors[1]>> },
     urls      |-> {},
     err       |-> ""]

LoadReturns ==
    { LoadFailure,
      LoadSuccess(<<"home">>, CalendarOf(<<ServerEvent("u1", <<"a">>)>>)),
      LoadSuccess(<<"News">>,
                  CalendarOf(<<ServerEvent("u1", <<"a">>), ServerEvent("u2", <<"n">>)>>)) }

NoModel == [events |-> <<>>, calendars |-> {}, calendarURLs |-> {}, err |-> "",
            viewMode |-> "DailyView", oneShot |-> FALSE]

\* viewMode and oneShot as main derives them from the flags.
ViewModeOf(f) ==
    IF f.day THEN "DailyView"
    ELSE IF f.week THEN "WeeklyView"
    ELSE IF f.month THEN "MonthlyView"
    ELSE "DailyView"

OneShotOf(f) == f.day \/ f.week \/ f.month

\* main up to the --next branch: its own loadAllCalendars, error dropped.
MainLoadStep(ret) ==
    /\ mpc = "load"
    /\ mainLoad' = ret
    /\ IF flags.next
         THEN mpc' = "shown" /\ displayed' = "next"
         ELSE mpc' = "model" /\ UNCHANGED displayed
    /\ UNCHANGED <<flags, model>>

\* initialModel: loads again and falls back to the samples on error.
InitialModelStep(ret) ==
    /\ mpc = "model"
    /\ model' = [events       |-> IF ret.err # "" THEN SampleEvents ELSE ret.events,
             calendars    |-> IF ret.err # "" THEN SampleCalendars ELSE ret.calendars,
             calendarURLs |-> IF ret.err # "" THEN {} ELSE ret.urls,
             err          |-> ret.err,
             viewMode     |-> ViewModeOf(flags),
             oneShot      |-> OneShotOf(flags)]
    /\ mpc' = "assign"
    /\ UNCHANGED <<flags, mainLoad, displayed>>

\* main after initialModel: the three assignments, then the view is printed
\* or the program is run.
AssignAndShow ==
    /\ mpc = "assign"
    /\ model' = [model EXCEPT !.events = mainLoad.events,
                      !.calendars = mainLoad.calendars,
                      !.calendarURLs = mainLoad.urls]
    /\ displayed' = IF OneShotOf(flags) THEN "oneshot" ELSE "tui"
    /\ mpc' = "shown"
    /\ UNCHANGED <<flags, mainLoad>>

Flags == [next : BOOLEAN, day : BOOLEAN, week : BOOLEAN, month : BOOLEAN]

InitMain ==
    /\ mpc = "load"
    /\ flags \in Flags
    /\ mainLoad = LoadFailure
    /\ model = NoModel
    /\ displayed = "none"

\* The program not started.
IdleMain ==
    /\ mpc = "idle"
    /\ flags = [next |-> FALSE, day |-> FALSE, week |-> FALSE, month |-> FALSE]
    /\ mainLoad = LoadFailure
    /\ model = NoModel
    /\ displayed = "none"

(***************************************************************************)
(* Properties of main.                                                     *)
(***************************************************************************)
\* C14: when both loads failed, the model shown (TUI or one-shot view)
\* holds the sample events and calendars, so its event list is not empty.
C14_SamplesShown ==
    (mpc = "shown" /\ displayed \in {"oneshot", "tui"}
        /\ mainLoad.err # "" /\ model.err # "") =>
        /\ model.events = SampleEvents
        /\ model.calendars = SampleCalendars
        /\ Len(model.events) > 0

(***************************************************************************)
(* loadICSFromReader(reader, calendarName, color) on payloads of several   *)
(* records.  A record is [start, rule, uid, summary]: start is absent      *)
(* ("none"), unreadable ("bad") or an instant ("at"); rule is 0 (no RRULE  *)
(* line) or an index of RuleTable.                                         *)
(***************************************************************************)
StartLine(st) ==
    CASE st.kind = "none" -> <<>>
      [] st.kind = "bad"  -> PayloadLine("DTSTART:", <<Ch("a")>>)
      [] OTHER            -> PayloadLine("DTSTART:", <<Stamp(st.at)>>)

RecordBlock(rec) ==
    PayloadLine("BEGIN:VEVENT", <<>>)
    \o PayloadLine("UID:", <<UidTok(rec.uid)>>)
    \o StartLine(rec.start)
    \o (IF rec.dur = 0 THEN <<>>
        ELSE PayloadLine("DTEND:", <<Stamp(rec.start.at + rec.dur)>>))
    \o PayloadLine("SUMMARY:", Chars(rec.summary))
    \o (IF rec.rule = 0 THEN <<>> ELSE PayloadLine("RRULE:", <<RuleTok(rec.rule)>>))
    \o PayloadLine("END:VEVENT", <<>>)

RECURSIVE RecordBlocks(_)
RecordBlocks(recs) ==
    IF recs = <<>> THEN <<>> ELSE RecordBlock(Head(recs)) \o RecordBlocks(Tail(recs))

PayloadOf(recs) == CalendarHead \o RecordBlocks(recs) \o CalendarFoot

\* The whole of loadICSFromReader on the payload of records.
ReadStep ==
    /\ rpc = "read"
    /\ decoded' = ReadPayload(PayloadOf(records), unescapes, "work", "205")
    /\ rpc' = "done"
    /\ UNCHANGED <<records, clock>>

\* The DTSTART lines of the records: absent, unreadable, long past, today.
StartTable ==
    << [kind |-> "none", at |-> At(Today, 0)],
       [kind |-> "bad", at |-> At(Today, 0)],
       [kind |-> "at", at |-> At(Today - FarBack, 0)],
       [kind |-> "at", at |-> At(Today, 1)] >>

RecordStarts == { StartTable[i] : i \in 1 .. Len(StartTable) }

SummaryOf(st) ==
    CASE st.kind = "none" -> <<"n", "a">>
      [] st.kind = "bad"  -> <<"a", "n">>
      [] st.at < At(Today, 0) -> <<"a">>
      [] OTHER -> <<"n">>

\* One UID per record shape.
UidTable ==
    << <<"n0", "n1", "n2", "n3">>, <<"b0", "b1", "b2", "b3">>,
       <<"p0", "p1", "p2", "p3">>, <<"t0", "t1", "t2", "t3">> >>

UidOf(i, r) == UidTable[i][r + 1]

\* The DTEND of the record: 0 for none, else that many slots after the start.
\* Both recurring rules occur with and without DTEND, from a past start and
\* from today's.
DurOf(i, r) ==
    CASE r = 0 -> 1
      [] r = 3 -> 1
      [] (r = 1) = (i = 3) -> 0
      [] OTHER -> 2

Records ==
    { [start |-> StartTable[i], rule |-> r, uid |-> UidOf(i, r),
       summary |-> SummaryOf(StartTable[i]), dur |-> DurOf(i, r)] :
        i \in 1 .. Len(StartTable), r \in 0 .. Len(RuleTable) }

InitRead ==
    /\ rpc = "read"
    /\ records \in UNION { [1 .. k -> Records] : k \in 0 .. MaxRecords }
    /\ clock \in { At(Today, 0), At(Today, 1) }
    /\ decoded = [err |-> FALSE, out |-> <<>>]

\* No payload being read.
IdleRead ==
    /\ rpc = "idle"
    /\ records = <<>>
    /\ clock = At(Today, 0)
    /\ decoded = [err |-> FALSE, out |-> <<>>]

(***************************************************************************)
(* Properties of reading.                                                  *)
(***************************************************************************)
EventOfRecord(rec, st, en) ==
    [Summary |-> rec.summary, Description |-> <<>>, CalendarName |-> "work",
     CalendarColor |-> "205", Start |-> [inst |-> st, off |-> 0],
     End |-> [inst |-> en, off |-> 0], UID |-> rec.uid]

\* The end of a record: its DTEND, or an hour after its start.
RecordEnd(rec) == rec.start.at + (IF rec.dur = 0 THEN OneHour ELSE rec.dur)

\* What the claim expects of one record with a readable start.
Expected(rec) ==
    IF rec.rule = 0 THEN << EventOfRecord(rec, rec.start.at, RecordEnd(rec)) >>
    ELSE LET occs == expandRecurringEvent(rec.start.at, RecordEnd(rec), RuleTable[rec.rule],
                                          AddDate(clock, 1, 0, 0), clock)
         IN  [ k \in 1 .. Len(occs) |-> EventOfRecord(rec, occs[k].Start, occs[k].End) ]

RECURSIVE ExpectedAll(_)
ExpectedAll(recs) ==
    IF recs = <<>> THEN <<>>
    ELSE (IF Head(recs).start.kind = "at" THEN Expected(Head(recs)) ELSE <<>>)
         \o ExpectedAll(Tail(recs))

\* C18: a record without a rule gives exactly one Event whatever its start,
\* a record with a rule one Event per occurrence of
\* expandRecurringEvent(start, end, rule, now + 1 year, now); each carries the
\* record's summary, description, calendar name and colour, and unique id.
C18_OnePerOccurrence ==
    rpc = "done" =>
        LET kept == SelectSeq(records, LAMBDA r : r.start.kind = "at")
        IN  /\ ~decoded.err
            /\ decoded.out = ExpectedAll(kept)
            /\ (\A k \in 1 .. Len(kept) : kept[k].rule = 0) => Len(decoded.out) = Len(kept)

\* A single event far in the past, then a daily rule with COUNT=2 from today.
C18_Witness ==
    /\ rpc = "done" /\ Len(records) = 2
    /\ records[1].rule = 0 /\ records[1].start.kind = "at"
    /\ records[1].start.at = At(Today - FarBack, 0)
    /\ records[2].rule = 1 /\ records[2].start.kind = "at" /\ records[2].start.at = At(Today, 1)
    /\ Len(decoded.out) = 3
    /\ decoded.out[1].Start.inst = At(Today - FarBack, 0)

\* C22: every Event of a recurring record lasts as long as the record: its
\* End is its Start plus (record end - record start), the record end being
\* the start plus one hour when the record has no DTEND; so for the
\* occurrences reached by fast-forward too.
C22_OccurrenceKeepsDuration ==
    rpc = "done" =>
        \A k \in 1 .. Len(decoded.out) :
            \A j \in 1 .. Len(records) :
                (records[j].uid = decoded.out[k].UID /\ records[j].rule # 0) =>
                    decoded.out[k].End.inst =
                        decoded.out[k].Start.inst
                        + (IF records[j].dur = 0 THEN OneHour
                           ELSE (records[j].start.at + records[j].dur) - records[j].start.at)

\* A daily record without DTEND from a start long past, fast-forwarded to
\* today, after a daily record from today that lasts two slots.
C22_Witness ==
    /\ rpc = "done" /\ Len(records) = 2
    /\ records[1].rule = 1 /\ records[1].start.at = At(Today, 1)
    /\ records[1].start.kind = "at" /\ records[1].dur = 2
    /\ records[2].rule = 1 /\ records[2].start.at = At(Today - FarBack, 0)
    /\ records[2].start.kind = "at" /\ records[2].dur = 0
    /\ Len(decoded.out) >= 3
    /\ decoded.out[1].End.inst = decoded.out[1].Start.inst + 2
    /\ decoded.out[Len(decoded.out)].UID = records[2].uid
    /\ DateOf(decoded.out[Len(decoded.out)].Start.inst) >= Today
    /\ decoded.out[Len(decoded.out)].End.inst = decoded.out[Len(decoded.out)].Start.inst + OneHour

\* Each record with a readable start read on its own, in payload order.
RECURSIVE ReadOneByOne(_)
ReadOneByOne(recs) ==
    IF recs = <<>> THEN <<>>
    ELSE (IF Head(recs).start.kind = "at"
            THEN ReadPayload(PayloadOf(<<Head(recs)>>), unescapes, "work", "205").out
            ELSE <<>>)
         \o ReadOneByOne(Tail(recs))

\* C19: records without a readable start do not fail the decode and leave
\* no Event; the Events returned are those of the other records, in payload
\* order, as if the dropped records were not in the payload.
C19_DroppedNotFatal ==
    rpc = "done" =>
        /\ ~decoded.err
        /\ decoded.out = ReadOneByOne(records)
        /\ \A k \in 1 .. Len(decoded.out) :
              \E j \in 1 .. Len(records) :
                  records[j].start.kind = "at" /\ records[j].uid = decoded.out[k].UID

\* A record with an unreadable start before a record that is decoded.
C19_Witness ==
    /\ rpc = "done" /\ Len(records) = 2
    /\ records[1].start.kind = "bad"
    /\ records[2].start.kind = "at" /\ records[2].rule = 0
    /\ ~decoded.err /\ Len(decoded.out) = 1
    /\ decoded.out[1].UID = records[2].uid

(***************************************************************************)
(* saveEventFromForm: the loop that uploads eventsToCreate, one call of    *)
(* createEventOnRadicale per event.                                        *)
(***************************************************************************)
\* fmt.Sprintf("%s@mytuicalendar", time.Now().Format("20060102T150405Z")):
\* the clock to the second.
UidAt(sec) == <<ToString(sec), "@mytuicalendar">>

\* A UID the event already has.
KeptUid(k) == <<"kept", ToString(k)>>

\* The k-th occurrence of the series the form describes.
FormEvent(k, uid) ==
    [Summary |-> <<"a">>, Description |-> <<>>,
     Start |-> Time(At(Today + k - 1, 0), 0), End |-> Time(At(Today + k - 1, 1), 0),
     UID |-> uid]

\* Series of one to MaxUploads occurrences; the form leaves the UID empty,
\* other callers may pass an event that has one.
Queues ==
    UNION { { [k \in 1 .. n |-> FormEvent(k, IF k \in K THEN KeptUid(k) ELSE <<>>)] :
                K \in SUBSET (1 .. n) } : n \in 1 .. MaxUploads }

\* An event the list holds before the form is submitted.
EarlierEvent == FormEvent(0, KeptUid(0))

\* The failing iteration appends its event all the same.
AppendAnyway(evs, e) == Append(evs, e)

\* The return on a failed upload comes before the append: m.events is as
\* it was.
FailedAppend(evs, e) == evs

\* m.message after the loop.
CreatedMessage(n) ==
    IF n = 1 THEN <<"Event created successfully!">>
    ELSE IF n > 1 THEN <<ToString(n), " events created successfully!">>
    ELSE <<>>

\* One iteration of the upload loop, tick seconds after the previous one.
\* With a writable address createEventOnRadicale is called and answered
\* with reply; a server that answers 201 or 204 has stored the payload
\* under the address, replacing what was there, and any other outcome ends
\* the function with the error message.  Without a writable address the
\* event is only appended.  After the last event the message is set.
SaveStep(tick, reply) ==
    /\ spc = "saving"
    /\ LET now == sClock + tick
           ev  == eventsToCreate[sIdx]
           uid == IF writable /\ ev.UID = <<>> THEN UidAt(now) ELSE ev.UID
           e   == [ev EXCEPT !.UID = uid]
           url == CalendarURL \o <<"/">> \o uid \o <<".ics">>
           ok  == ~writable \/ (reply.status # 0 /\ IsCreated(reply.status))
       IN  /\ sClock' = now
           /\ eventsToCreate' = [eventsToCreate EXCEPT ![sIdx] = e]
           /\ sRequests' = IF writable THEN Append(sRequests, url) ELSE sRequests
           /\ serverStore' = IF writable /\ ok THEN MapPut(serverStore, url, Payload(e))
                             ELSE serverStore
           /\ IF ok
                THEN /\ mEvents' = Append(mEvents, e)
                     /\ savedCount' = savedCount + 1
                     /\ sIdx' = sIdx + 1
                     /\ spc' = IF sIdx = Len(eventsToCreate) THEN "done" ELSE "saving"
                     /\ sMessage' = IF sIdx = Len(eventsToCreate)
                                      THEN CreatedMessage(savedCount + 1)
                                      ELSE sMessage
                ELSE /\ mEvents' = FailedAppend(mEvents, e)
                     /\ spc' = "failed"
                     /\ sMessage' = <<"Error creating event: ", ToString(reply.status)>>
                     /\ UNCHANGED <<savedCount, sIdx>>
    /\ UNCHANGED writable

InitSave ==
    /\ spc = "saving"
    /\ eventsToCreate \in Queues
    /\ sIdx = 1
    /\ sClock = 0
    /\ serverStore = {}
    /\ savedCount = 0
    /\ writable \in BOOLEAN
    /\ mEvents \in {<<>>, <<EarlierEvent>>}
    /\ sMessage = <<>>
    /\ sRequests = <<>>

\* No form submitted.
IdleSave ==
    /\ spc = "idle"
    /\ eventsToCreate = <<>>
    /\ sIdx = 1
    /\ sClock = 0
    /\ serverStore = {}
    /\ savedCount = 0
    /\ writable = FALSE
    /\ mEvents = <<>>
    /\ sMessage = <<>>
    /\ sRequests = <<>>

(***************************************************************************)
(* Properties of saving.                                                   *)
(***************************************************************************)
\* C29: an event keeps the UID it has, an event without one is given one;
\* the events uploaded have pairwise different UIDs, also when uploaded
\* within one second, so each successful upload leaves a resource of its
\* own on the server.
C29_NoUploadOverwrites ==
    (spc \in {"saving", "done", "failed"} /\ writable) =>
        /\ \A k \in 1 .. (sIdx - 1) :
              eventsToCreate[k].UID \in {KeptUid(k)} \cup { UidAt(t) : t \in 0 .. sClock }
        /\ \A j, k \in 1 .. (sIdx - 1) :
              j # k => eventsToCreate[j].UID # eventsToCreate[k].UID
        /\ Cardinality(serverStore) = savedCount

\* The address an event is PUT to.
AddressOf(e) == CalendarURL \o <<"/">> \o e.UID \o <<".ics">>

\* C32: with a writable address, the list holds what it held before followed
\* by exactly the events whose PUT succeeded, in order; one PUT was sent per
\* appended event, plus the failing one when a PUT failed; after a failure
\* the error message is set, and the failing event and the later ones of
\* the series are neither on the server nor in the list.
C32_AppendedOnlyAfterPut ==
    (writable /\ spc \in {"saving", "done", "failed"}) =>
        LET n0 == Len(mEvents) - savedCount
        IN  /\ n0 >= 0
            /\ SubSeq(mEvents, 1, n0) \in {<<>>, <<EarlierEvent>>}
            /\ SubSeq(mEvents, n0 + 1, Len(mEvents)) = SubSeq(eventsToCreate, 1, savedCount)
            /\ \A k \in 1 .. savedCount :
                  /\ sRequests[k] = AddressOf(eventsToCreate[k])
                  /\ AddressOf(eventsToCreate[k]) \in Keys(serverStore)
            /\ Keys(serverStore) \subseteq { sRequests[k] : k \in 1 .. savedCount }
            /\ Len(sRequests) = savedCount + (IF spc = "failed" THEN 1 ELSE 0)
            /\ spc = "failed" =>
                  /\ savedCount < Len(eventsToCreate)
                  /\ sMessage # <<>> /\ sMessage[1] = "Error creating event: "
            /\ spc = "done" => savedCount = Len(eventsToCreate)

\* A series of three: two uploaded and kept, the third refused.
C32_Witness ==
    /\ writable /\ spc = "failed"
    /\ Len(eventsToCreate) = 3 /\ savedCount = 2
    /\ Len(mEvents) = 3 /\ mEvents[1] = EarlierEvent
    /\ Len(sRequests) = 3
    /\ sMessage[1] = "Error creating event: "

(***************************************************************************)
(* saveEventFromForm: the form's values parsed and checked, and the loop   *)
(* that builds eventsToCreate.                                             *)
(***************************************************************************)
\* maxIterations of the recurrence loop, and the iteration at which a series
\* without Repeat-Until stops.
formMaxIterations == 365

defaultLastIteration == 52

\* A time field: empty, unreadable, or a slot of the day.
NoClock == -1

BadClock == -2

\* A date field: [kind, day], kind "empty", "bad" or "date".
DateField(kind, day) == [kind |-> kind, day |-> day]

EmptyDate == DateField("empty", 0)

BadDate == DateField("bad", 0)

\* repeatType: the select's value, "none" and "" meaning no repetition.
RepeatType(f) == IF f.repeat # "" /\ f.repeat # "none" THEN f.repeat ELSE ""

\* Both times were entered.
HasTimes(f) == f.startTime # NoClock /\ f.endTime # NoClock

\* start and end: the date with the entered times, or the whole day from
\* 00:00 to 23:59 when a time is missing.
FormStart(f) == IF HasTimes(f) THEN At(f.date.day, f.startTime) ELSE At(f.date.day, 0)

FormEnd(f) ==
    IF HasTimes(f) THEN At(f.date.day, f.endTime) ELSE At(f.date.day, SlotsPerDay - 1)

\* repeatEnd: midnight of the Repeat-Until date, the zero time when the
\* field is empty or no repetition is selected.
RepeatEnd(f) ==
    IF RepeatType(f) # "" /\ f.repeatEndDate.kind = "date"
      THEN At(f.repeatEndDate.day, 0)
    ELSE NoTime

\* The message of the check that rejects the form, <<>> when none does.
Rejection(f) ==
    IF f.date.kind # "date" THEN <<"Invalid date">>
    ELSE IF HasTimes(f) /\ (f.startTime = BadClock \/ f.endTime = BadClock)
      THEN <<"Invalid time format (use HH:MM)">>
    ELSE IF HasTimes(f) /\ FormEnd(f) <= FormStart(f)
      THEN <<"End time must be after start time">>
    ELSE IF RepeatType(f) # "" /\ f.repeatEndDate.kind = "bad"
      THEN <<"Invalid repeat end date">>
    ELSE <<>>

\* The step of the recurrence loop.
FormAdvance(t, repeatType) ==
    AddDate(t, 0, IF repeatType = "monthly" THEN 1 ELSE 0,
               CASE repeatType = "daily" -> 1
                 [] repeatType = "weekly" -> 7
                 [] OTHER -> 0)

\* The series without Repeat-Until never cut short.
NeverCut(repeatEnd, iter) == FALSE

\* A series without Repeat-Until stops after iteration 52.
DefaultCut(repeatEnd, iter) ==
    repeatEnd = NoTime /\ iter >= defaultLastIteration

\* Parsing and the checks; a single event is appended here.
BuildBegin ==
    /\ bpc = "parse"
    /\ IF Rejection(form) # <<>>
         THEN /\ bpc' = "rejected"
              /\ bMessage' = Rejection(form)
              /\ UNCHANGED <<bStart, bEnd, toCreate>>
       ELSE IF RepeatType(form) # ""
         THEN /\ bpc' = "loop"
              /\ bStart' = FormStart(form)
              /\ bEnd' = FormEnd(form)
              /\ UNCHANGED <<toCreate, bMessage>>
       ELSE /\ bpc' = "built"
            /\ toCreate' = <<[Start |-> FormStart(form), End |-> FormEnd(form)]>>
            /\ UNCHANGED <<bStart, bEnd, bMessage>>
    /\ UNCHANGED <<form, bIteration>>

\* One pass through the recurrence loop: the loop condition, the append, the
\* Repeat-Until break, the step, the break of a series without
\* Repeat-Until, iteration++.
BuildStep ==
    /\ bpc = "loop"
    /\ IF ~(bIteration < formMaxIterations)
         THEN /\ bpc' = "built"
              /\ UNCHANGED <<bStart, bEnd, bIteration, toCreate>>
       ELSE /\ toCreate' = Append(toCreate, [Start |-> bStart, End |-> bEnd])
            /\ IF RepeatEnd(form) # NoTime /\ bStart > RepeatEnd(form)
                 THEN /\ bpc' = "built"
                      /\ UNCHANGED <<bStart, bEnd, bIteration>>
                 ELSE /\ bStart' = FormAdvance(bStart, RepeatType(form))
                      /\ bEnd' = FormAdvance(bEnd, RepeatType(form))
                      /\ IF DefaultCut(RepeatEnd(form), bIteration)
                           THEN bpc' = "built" /\ UNCHANGED bIteration
                           ELSE bpc' = "loop" /\ bIteration' = bIteration + 1
    /\ UNCHANGED <<form, bMessage>>

\* The forms: a date in the first days of March or at the end of January,
\* times entered or not, every repetition, Repeat-Until empty, unreadable,
\* before the date, a few days after it, or far ahead.
FormDays == {Today, DaysFromCivil(2024, 1, 31)}

FormTimes == {<<NoClock, NoClock>>, <<0, SlotsPerDay - 1>>, <<SlotsPerDay - 1, SlotsPerDay - 1>>,
              <<SlotsPerDay - 1, NoClock>>, <<BadClock, 0>>}

Forms ==
    { [date |-> d, startTime |-> tm[1], endTime |-> tm[2], repeat |-> r, repeatEndDate |-> u] :
        d \in {DateField("date", day) : day \in FormDays} \cup {BadDate},
        tm \in FormTimes,
        r \in {"none", "daily", "weekly", "monthly"},
        u \in {EmptyDate, BadDate} \cup
              {DateField("date", Today + k) : k \in {-1, UntilAhead, 400}} }

InitBuild ==
    /\ bpc = "parse"
    /\ form \in Forms
    /\ bStart = 0
    /\ bEnd = 0
    /\ bIteration = 0
    /\ toCreate = <<>>
    /\ bMessage = <<>>

\* No form submitted.
IdleBuild ==
    /\ bpc = "idle"
    /\ form = [date |-> EmptyDate, startTime |-> NoClock, endTime |-> NoClock,
               repeat |-> "none", repeatEndDate |-> EmptyDate]
    /\ bStart = 0
    /\ bEnd = 0
    /\ bIteration = 0
    /\ toCreate = <<>>
    /\ bMessage = <<>>

(***************************************************************************)
(* Properties of the built series.                                         *)
(***************************************************************************)
\* C33: in a series with a Repeat-Until date no occurrence after the first
\* starts on a calendar day later than that date.
C33_NothingAfterRepeatUntil ==
    (bpc = "built" /\ RepeatEnd(form) # NoTime) =>
        \A k \in 2 .. Len(toCreate) :
            DateOf(toCreate[k].Start) <= form.repeatEndDate.day

GoDate(y, m, d) == DaysFromCivil(y + ((m - 1) \div 12), ((m - 1) % 12) + 1, d)

\* strconv.Atoi of a string of digits (no string here is long enough to
\* overflow).
RECURSIVE AtoiFrom(_, _)
AtoiFrom(digits, acc) ==
    IF digits = <<>> THEN acc
    ELSE AtoiFrom(Tail(digits),
                  10 * acc + (CASE Head(digits) = "0" -> 0 [] Head(digits) = "1" -> 1
                                [] Head(digits) = "2" -> 2 [] Head(digits) = "3" -> 3
                                [] Head(digits) = "4" -> 4 [] Head(digits) = "5" -> 5
                                [] Head(digits) = "6" -> 6 [] Head(digits) = "7" -> 7
                                [] Head(digits) = "8" -> 8 [] Head(digits) = "9" -> 9))

Atoi(digits) == AtoiFrom(digits, 0)

Digits == {"0", "1", "2", "3", "4", "5", "6", "7", "8", "9"}

\* The left and right keys: one day, one week or one month, by AddDate.
Navigate(t, view, dir) ==
    AddDate(t, 0, IF view = "MonthlyView" THEN dir ELSE 0,
               CASE view = "DailyView" -> dir
                 [] view = "WeeklyView" -> 7 * dir
                 [] OTHER -> 0)

\* lastDay: day 0 of the following month.
LastDay(t) ==
    LET Of(c) == CivilFromDays(GoDate(c.y, c.m + 1, 0)).d
    IN  Of(CivilFromDays(DateOf(t)))

\* The test on lastDay left out.
AnyDay(day, lastDay) == TRUE

\* day <= lastDay
WithinMonth(day, lastDay) == day <= lastDay

\* The jump itself: midnight of the day in the displayed month.
JumpTo(t, day) ==
    LET Of(c) == At(GoDate(c.y, c.m, day), 0)
    IN  Of(CivilFromDays(DateOf(t)))

\* Enter in the main view jumps when the typed day exists.
Jumps(view, input, t) ==
    /\ view = "MonthlyView" /\ input # <<>>
    /\ Atoi(input) >= 1 /\ Atoi(input) <= 31
    /\ WithinMonth(Atoi(input), LastDay(t))

\* The form mode never recognised.
NeverFormMode(mode) == FALSE

\* m.creationMode == UIFormInput && m.eventForm != nil; the form is built
\* by initialModel and rebuilt ever after, so it is never nil.
FormMode(mode) == mode = "UIFormInput"

\* Update with the form open.  The form handles the message and is then in
\* state st (a window-size message leaves it running and is not followed by
\* the test of the state); on completion saveEventFromForm appends the
\* events it created, none when it rejects the form or the first upload
\* fails, and in every case closes and rebuilds the form; on abort the
\* form is closed and rebuilt.
FormUpdate(msg, st, created) ==
    /\ FormMode(creationMode)
    /\ ~quitting /\ nKeys < MaxKeys
    /\ lastMsg' = msg
    /\ nKeys' = nKeys + 1
    /\ IF msg = "resize"
         THEN /\ formState' = "normal"
              /\ formFresh' = FALSE
              /\ UNCHANGED <<creationMode, tuiEvents>>
       ELSE /\ formState' = st
            /\ formFresh' = (st # "normal")
            /\ creationMode' = IF st = "normal" THEN creationMode ELSE "NoCreation"
            /\ tuiEvents' = IF st = "completed" THEN tuiEvents \o created ELSE tuiEvents
    /\ UNCHANGED <<viewMode, currentDate, dayInput, quitting>>

\* Update in the main view; now is what time.Now() returns.
MainUpdate(msg, now) ==
    /\ ~FormMode(creationMode)
    /\ ~quitting /\ nKeys < MaxKeys
    /\ lastMsg' = msg
    /\ nKeys' = nKeys + 1
    /\ quitting' = (msg \in {"q", "ctrl+c"})
    /\ creationMode' = IF msg \in {"n", "a"} THEN "UIFormInput" ELSE creationMode
    /\ formFresh' = IF msg \in {"n", "a"} THEN TRUE ELSE formFresh
    /\ formState' = IF msg \in {"n", "a"} THEN "normal" ELSE formState
    /\ currentDate' =
          CASE msg \in {"left", "h"}  -> Navigate(currentDate, viewMode, -1)
            [] msg \in {"right", "l"} -> Navigate(currentDate, viewMode, 1)
            [] msg = "t" -> now
            [] msg = "enter" /\ Jumps(viewMode, dayInput, currentDate)
                 -> JumpTo(currentDate, Atoi(dayInput))
            [] OTHER -> currentDate
    /\ viewMode' =
          CASE msg = "d" -> "DailyView"
            [] msg = "w" -> "WeeklyView"
            [] msg = "m" -> "MonthlyView"
            [] msg = "enter" /\ Jumps(viewMode, dayInput, currentDate) -> "DailyView"
            [] OTHER -> viewMode
    /\ dayInput' =
          CASE msg \in {"left", "h", "right", "l", "t", "d", "w", "m", "escape"} -> <<>>
            [] msg = "enter" /\ Jumps(viewMode, dayInput, currentDate) -> <<>>
            [] msg \in Digits /\ viewMode = "MonthlyView" -> Append(dayInput, msg)
            [] msg = "backspace" /\ Len(dayInput) > 0
                 -> SubSeq(dayInput, 1, Len(dayInput) - 1)
            [] OTHER -> dayInput
    /\ UNCHANGED tuiEvents

\* The messages: keys of the main view, a key it does not know, a
\* window-size message.
Msgs ==
    {"q", "n", "left", "right", "t", "d", "w", "m", "enter", "0", "1", "3",
     "backspace", "escape", "x", "resize"}

\* What completes a form can leave in the list.
CreatedLists == {<<>>, <<"new">>, <<"new", "new">>}

\* The days the view starts on: ends of months of 31, 29 and 30 days, the
\* end of the year, and today.
ViewDays ==
    {DaysFromCivil(2023, 12, 31), DaysFromCivil(2024, 1, 31), DaysFromCivil(2024, 2, 29),
     Today, DaysFromCivil(2024, 4, 30)}

InitUpdate ==
    /\ viewMode \in {"DailyView", "WeeklyView", "MonthlyView"}
    /\ currentDate \in { At(d, sl) : d \in ViewDays, sl \in Slots }
    /\ dayInput = <<>>
    /\ creationMode = "NoCreation"
    /\ tuiEvents = <<"old">>
    /\ quitting = FALSE
    /\ formFresh = TRUE
    /\ formState = "normal"
    /\ lastMsg = ""
    /\ nKeys = 0

\* The program is not showing its view.
IdleUpdate ==
    /\ viewMode = "DailyView"
    /\ currentDate = At(Today, 0)
    /\ dayInput = <<>>
    /\ creationMode = "NoCreation"
    /\ tuiEvents = <<>>
    /\ quitting = TRUE
    /\ formFresh = TRUE
    /\ formState = "normal"
    /\ lastMsg = ""
    /\ nKeys = 0

(***************************************************************************)
(* Properties of Update.                                                   *)
(***************************************************************************)
\* A step taken while the form is open.
FormOpen == creationMode = "UIFormInput"

\* The form was left by this step.
FormLeft == FormOpen /\ creationMode' # "UIFormInput"

\* C35 as amended: while the form is open no message changes viewMode,
\* currentDate or dayInput or quits; the form is left exactly when it
\* completes or aborts on a message other than a window-size message, and
\* then creationMode is NoCreation and the form is rebuilt; the event list
\* is unchanged except that the message that completes the form appends
\* the events saveEventFromForm created.
C35_FormOwnsEveryMessage ==
    [][FormOpen =>
          /\ UNCHANGED <<viewMode, currentDate, dayInput>>
          /\ ~quitting'
          /\ FormLeft <=> (formState' \in {"completed", "aborted"})
          /\ FormLeft => (creationMode' = "NoCreation" /\ formFresh')
          /\ formState' # "completed" => tuiEvents' = tuiEvents
          /\ formState' = "completed" =>
                /\ Len(tuiEvents') >= Len(tuiEvents)
                /\ SubSeq(tuiEvents', 1, Len(tuiEvents)) = tuiEvents]_updVars

\* C35 as stated: while the form is open no message changes viewMode,
\* currentDate, dayInput or the event list, or quits, and the form is left
\* only on completion or abort, which set NoCreation and rebuild the form.
C35_NothingChangesWhileFormOpen ==
    [][FormOpen =>
          /\ UNCHANGED <<viewMode, currentDate, dayInput, tuiEvents>>
          /\ ~quitting'
          /\ FormLeft => /\ formState' \in {"completed", "aborted"}
                         /\ creationMode' = "NoCreation" /\ formFresh']_updVars

\* The form was opened with a day typed in monthly view and then completed:
\* two events more in the list, the view as it was.
C35_Witness ==
    /\ nKeys = 3 /\ lastMsg = "enter" /\ formState = "completed"
    /\ creationMode = "NoCreation" /\ formFresh
    /\ Len(tuiEvents) = 3
    /\ viewMode = "MonthlyView" /\ dayInput = <<"3">>

\* The number of days of month m of year y.
MonthLength(y, m) ==
    IF m \in {4, 6, 9, 11} THEN 30
    ELSE IF m # 2 THEN 31
    ELSE IF (y % 4 = 0 /\ y % 100 # 0) \/ y % 400 = 0 THEN 29
    ELSE 28

\* Enter pressed in the main view's monthly view with digits typed.
EnterOnDigits ==
    /\ ~FormOpen /\ lastMsg' = "enter" /\ nKeys' = nKeys + 1
    /\ viewMode = "MonthlyView" /\ dayInput # <<>>

\* C36: Enter on typed digits d in monthly view sets currentDate to day d of
\* the displayed month and year, switches to the daily view and clears
\* dayInput when 1 <= d <= the month's number of days, and otherwise leaves
\* the three unchanged; dayInput is non-empty only in monthly view.
C36_JumpOnlyWithinMonth ==
    /\ [](dayInput # <<>> => viewMode = "MonthlyView")
    /\ [][EnterOnDigits =>
            IF /\ Atoi(dayInput) >= 1
               /\ Atoi(dayInput) <= MonthLength(CivilOf(currentDate).y, CivilOf(currentDate).m)
              THEN /\ CivilOf(currentDate') =
                         [CivilOf(currentDate) EXCEPT !.d = Atoi(dayInput)]
                   /\ viewMode' = "DailyView"
                   /\ dayInput' = <<>>
              ELSE UNCHANGED <<currentDate, viewMode, dayInput>>]_updVars

\* February 2024 displayed: "31" typed and refused, the view still monthly
\* with the digits in place.
C36_Witness ==
    /\ nKeys = 3 /\ lastMsg = "enter"
    /\ viewMode = "MonthlyView" /\ dayInput = <<"3", "1">>
    /\ CivilOf(currentDate) = [y |-> 2024, m |-> 2, d |-> 29]

\* Months counted from year 0.
MonthIndex(t) == CivilOf(t).y * 12 + CivilOf(t).m

\* The left or right key pressed in the main view.
Pressed(key) == ~FormOpen /\ lastMsg' = key /\ nKeys' = nKeys + 1

\* C37: in monthly view right moves currentDate into the next calendar month
\* and left into the previous one, and right then left ends in the month
\* it started in; in daily and weekly view right then left ends on the
\* date it started on.
C37_MonthStepsAndBack ==
    /\ [][viewMode = "MonthlyView" =>
             /\ Pressed("right") => (MonthIndex(currentDate') = MonthIndex(currentDate) + 1)
             /\ Pressed("left") => (MonthIndex(currentDate') = MonthIndex(currentDate) - 1)]_updVars
    /\ [](IF viewMode = "MonthlyView"
            THEN MonthIndex(Navigate(Navigate(currentDate, viewMode, 1), viewMode, -1))
                   = MonthIndex(currentDate)
            ELSE Navigate(Navigate(currentDate, viewMode, 1), viewMode, -1) = currentDate)

(***************************************************************************)
(* Specifications: one per component, the other components at rest.        *)
(***************************************************************************)
vars == <<expVars, codecVars, discVars, fetchVars, loadVars, mainVars, readVars, saveVars, buildVars, updVars>>

InitSpecExpand == InitExpand /\ IdleCodec /\ IdleDiscover /\ IdleFetch /\ IdleLoad /\ IdleMain
    /\ IdleRead /\ IdleSave /\ IdleBuild /\ IdleUpdate

NextSpecExpand ==
    \/ ExpandBegin /\ UNCHANGED <<codecVars, discVars, fetchVars, loadVars, mainVars, readVars, saveVars, buildVars, updVars>>
    \/ FastForwardStep /\ UNCHANGED <<codecVars, discVars, fetchVars, loadVars, mainVars, readVars, saveVars, buildVars, updVars>>
    \/ EmitStep /\ UNCHANGED <<codecVars, discVars, fetchVars, loadVars, mainVars, readVars, saveVars, buildVars, updVars>>

SpecExpand == InitSpecExpand /\ [][NextSpecExpand]_vars

InitSpecCodec == InitCodec /\ IdleExpand /\ IdleDiscover /\ IdleFetch /\ IdleLoad /\ IdleMain
    /\ IdleRead /\ IdleSave /\ IdleBuild /\ IdleUpdate

NextSpecCodec ==
    \/ \E reply \in PutReplies :
          createEventOnRadicale(reply) /\ UNCHANGED <<expVars, discVars, fetchVars, loadVars, mainVars, readVars, saveVars, buildVars, updVars>>
    \/ loadICSFromReader /\ UNCHANGED <<expVars, discVars, fetchVars, loadVars, mainVars, readVars, saveVars, buildVars, updVars>>

SpecCodec == InitSpecCodec /\ [][NextSpecCodec]_vars

InitSpecDiscover == InitDiscover /\ IdleExpand /\ IdleCodec /\ IdleFetch /\ IdleLoad /\ IdleMain
    /\ IdleRead /\ IdleSave /\ IdleBuild /\ IdleUpdate

NextSpecDiscover ==
    \/ SendPropfind /\ UNCHANGED <<expVars, codecVars, fetchVars, loadVars, mainVars, readVars, saveVars, buildVars, updVars>>
    \/ HandleListing /\ UNCHANGED <<expVars, codecVars, fetchVars, loadVars, mainVars, readVars, saveVars, buildVars, updVars>>

SpecDiscover == InitSpecDiscover /\ [][NextSpecDiscover]_vars

InitSpecFetch == InitFetch /\ IdleExpand /\ IdleCodec /\ IdleDiscover /\ IdleLoad /\ IdleMain
    /\ IdleRead /\ IdleSave /\ IdleBuild /\ IdleUpdate

NextSpecFetch ==
    \E reply \in GetReplies :
        FetchCandidate(reply) /\ UNCHANGED <<expVars, codecVars, discVars, loadVars, mainVars, readVars, saveVars, buildVars, updVars>>

SpecFetch == InitSpecFetch /\ [][NextSpecFetch]_vars

InitSpecLoad == InitLoad /\ IdleExpand /\ IdleCodec /\ IdleDiscover /\ IdleFetch /\ IdleMain
    /\ IdleRead /\ IdleSave /\ IdleBuild /\ IdleUpdate

OtherVars == <<expVars, codecVars, discVars, fetchVars, mainVars, readVars, saveVars, buildVars, updVars>>

NextSpecLoad ==
    \/ \E res \in ConfigResults : LoadConfigStep(res) /\ UNCHANGED OtherVars
    \/ \E res \in Discoveries : DiscoverStep(res) /\ UNCHANGED OtherVars
    \/ \E res \in FetchResults : CollectionStep(res) /\ UNCHANGED OtherVars
    \/ \E reply \in FeedReplies, file \in Files : OtherStep(reply, file) /\ UNCHANGED OtherVars
    \/ \E file \in Files : LocalStep(file) /\ UNCHANGED OtherVars
    \/ ReturnStep /\ UNCHANGED OtherVars

SpecLoad == InitSpecLoad /\ [][NextSpecLoad]_vars

InitSpecMain == InitMain /\ IdleExpand /\ IdleCodec /\ IdleDiscover /\ IdleFetch /\ IdleLoad
    /\ IdleRead /\ IdleSave /\ IdleBuild /\ IdleUpdate

NotMainVars == <<expVars, codecVars, discVars, fetchVars, loadVars, readVars, saveVars, buildVars, updVars>>

NextSpecMain ==
    \/ \E ret \in LoadReturns : MainLoadStep(ret) /\ UNCHANGED NotMainVars
    \/ \E ret \in LoadReturns : InitialModelStep(ret) /\ UNCHANGED NotMainVars
    \/ AssignAndShow /\ UNCHANGED NotMainVars

SpecMain == InitSpecMain /\ [][NextSpecMain]_vars

InitSpecRead ==
    InitRead /\ IdleExpand /\ IdleCodec /\ IdleDiscover /\ IdleFetch /\ IdleLoad /\ IdleMain
    /\ IdleSave /\ IdleBuild /\ IdleUpdate

NextSpecRead ==
    ReadStep
    /\ UNCHANGED <<expVars, codecVars, discVars, fetchVars, loadVars, mainVars, saveVars, buildVars, updVars>>

SpecRead == InitSpecRead /\ [][NextSpecRead]_vars

InitSpecSave ==
    InitSave /\ IdleExpand /\ IdleCodec /\ IdleDiscover /\ IdleFetch /\ IdleLoad /\ IdleMain
    /\ IdleRead /\ IdleBuild /\ IdleUpdate

NextSpecSave ==
    \E tick \in {0, 1}, reply \in PutReplies :
        SaveStep(tick, reply)
        /\ UNCHANGED <<expVars, codecVars, discVars, fetchVars, loadVars, mainVars, readVars, buildVars, updVars>>

SpecSave == InitSpecSave /\ [][NextSpecSave]_vars

InitSpecBuild ==
    InitBuild /\ IdleExpand /\ IdleCodec /\ IdleDiscover /\ IdleFetch /\ IdleLoad /\ IdleMain
    /\ IdleRead /\ IdleSave /\ IdleUpdate

NotBuildVars ==
    <<expVars, codecVars, discVars, fetchVars, loadVars, mainVars, readVars, saveVars, updVars>>

NextSpecBuild ==
    \/ BuildBegin /\ UNCHANGED NotBuildVars
    \/ BuildStep /\ UNCHANGED NotBuildVars

SpecBuild == InitSpecBuild /\ [][NextSpecBuild]_vars

InitSpecUpdate ==
    InitUpdate /\ IdleExpand /\ IdleCodec /\ IdleDiscover /\ IdleFetch /\ IdleLoad /\ IdleMain
    /\ IdleRead /\ IdleSave /\ IdleBuild

NotUpdateVars ==
    <<expVars, codecVars, discVars, fetchVars, loadVars, mainVars, readVars, saveVars, buildVars>>

NextSpecUpdate ==
    \/ \E msg \in Msgs, st \in {"normal", "completed", "aborted"}, created \in CreatedLists :
          FormUpdate(msg, st, created) /\ UNCHANGED NotUpdateVars
    \/ \E msg \in Msgs, sl \in Slots :
          MainUpdate(msg, At(Today, sl)) /\ UNCHANGED NotUpdateVars

SpecUpdate == InitSpecUpdate /\ [][NextSpecUpdate]_vars

====
